---- MODULE Spec2Model ----
(***************************************************************************)
(* Circulation engine of the e-library backend (src/src/routes/books.ts).  *)
(* Every HTTP request is a process that runs its handler one awaited store *)
(* call at a time; the store is shared by all requests.  Writes made       *)
(* inside prisma.$transaction are buffered per request and become visible  *)
(* to other requests only when the transaction commits.                    *)
(***************************************************************************)
EXTENDS Integers, Sequences, FiniteSets, TLC

\* ------------------------------------------------------------------ bounds
MaxRequests == 4    \* requests accepted in one behaviour
MaxTime == 2        \* last value of the clock

Procs == {1, 2}     \* requests in flight at the same time

\* ------------------------------------------------------------- input sets
NULL == 0                       \* a null date / an absent selector
BookIds == {"b1", "b2"}         \* books in the catalog
MissingBook == "b0"             \* a book_id no book has
UserIds == {"u1"}               \* registered users
MissingUser == "u0"             \* a user_id no user has
DueDates == {9}
NoCred == "NONE"                \* missing or invalid bearer token
ROLE_VALUES == {"USER", "LIBRARY_ADMIN", "SUPER_ADMIN"}
Creds == ROLE_VALUES \cup {NoCred}
IssueIds == {1, 2, 3}           \* issue_id values a caller may name

VARIABLES
  book,        \* Book table: book_id -> status
  user,        \* User table: the set of user_id
  bookIssue,   \* BookIssue table: set of rows
  printJob,    \* PrintJob table
  payment,     \* Payment table
  issueSeq,    \* number of issue_id values handed out
  now,         \* wall clock
  req,         \* the request accepted last
  pc,          \* per request: position in its handler
  args,        \* per request: validated request body
  issue,       \* per request: the handler's local `issue` / `created`
  tx,          \* per request: writes of its open transaction, not yet committed
  res,         \* the response sent last
  reqCount,    \* requests accepted so far
  chain,       \* history: a committed return and the issue request that follows it
  verifyLog    \* history: the verify calls that committed, in commit order

store == <<book, user, bookIssue, printJob, payment>>
vars == <<book, user, bookIssue, printJob, payment, issueSeq, now, req, pc, args,
          issue, tx, res, reqCount, chain, verifyLog>>

\* ---------------------------------------------------------------- records
NoIssue == [issue_id |-> 0, book_id |-> "", user_id |-> "", issued_date |-> NULL,
            due_date |-> NULL, returned_date |-> NULL]
NoArgs == [book_id |-> "", user_id |-> "", issue_id |-> NULL, due_date |-> NULL]
NoReq == [op |-> "", cred |-> NoCred, book_id |-> "", user_id |-> "", issue_id |-> NULL]
NoRes == [status |-> 0, issue |-> NoIssue, items |-> <<>>]
NoChain == [stage |-> "none", book_id |-> "", proc |-> 0]

Reply(code) == [status |-> code, issue |-> NoIssue, items |-> <<>>]
ReplyIssue(code, i) == [status |-> code, issue |-> i, items |-> <<>>]
ReplyItems(code, s) == [status |-> code, issue |-> NoIssue, items |-> s]

\* ------------------------------------------------------------- middleware
requireAuth_FailOpen(cred) == TRUE

\* requireAuth: a request without a valid token is answered 401.
requireAuth(cred) == cred # NoCred

requireRole_AnyAdmin(allowed, cred) == cred \in {"LIBRARY_ADMIN", "SUPER_ADMIN"}

\* requireRole(allowed): the role must be a member of the enumerated set.
requireRole(allowed, cred) == cred \in allowed

CirculationRoles == {"LIBRARY_ADMIN", "SUPER_ADMIN"}

\* The chain requireAuth, requireRole(allowed): 0 when the handler is reached.
Gate(allowed, cred) ==
  IF ~requireAuth(cred) THEN 401
  ELSE IF ~requireRole(allowed, cred) THEN 403
  ELSE 0

\* issueSchema: book_id and user_id are non-empty strings.
issueSchema(b, u) == b # "" /\ u # ""

selectorMissing_Never(issue_id, book_id) == FALSE

\* if (!issue_id && !book_id): POST /return was given no selector.
selectorMissing(issue_id, book_id) == issue_id = NULL /\ book_id = ""

\* ------------------------------------------------------------ store reads
\* POST /issue on the row read by prisma.book.findUnique: 404 when there is no
\* such book, 409 when it is not AVAILABLE, 0 when the handler goes on.
BookCheck_NoStatusCheck(b) ==
  IF b \notin DOMAIN book THEN 404 ELSE 0

BookCheck(b) ==
  IF b \notin DOMAIN book THEN 404
  ELSE IF book[b] # "AVAILABLE" THEN 409
  ELSE 0

UserCheck_None(u) == 0

\* POST /issue on the row read by prisma.user.findUnique.
UserCheck(u) == IF u \notin user THEN 404 ELSE 0

\* where: { returned_date: null }
OpenIssues == {i \in bookIssue : i.returned_date = NULL}
OpenIssuesOf(b) == {i \in OpenIssues : i.book_id = b}

\* where: { returned_date: null, issue_id?, book_id? } of POST /return
ReturnWhere(issue_id, book_id) ==
  {i \in bookIssue :
     /\ i.returned_date = NULL
     /\ (issue_id # NULL => i.issue_id = issue_id)
     /\ (book_id # "" => i.book_id = book_id)}

FindFirstDesc_Asc(rows) == {i \in rows : \A j \in rows : j.issued_date >= i.issued_date}

\* orderBy: { issued_date: 'desc' } + findFirst: a row no other row precedes.
FindFirstDesc(rows) == {i \in rows : \A j \in rows : j.issued_date <= i.issued_date}

\* orderBy: { issued_date: 'desc' } + findMany: the rows in descending order;
\* rows with equal issued_date come in any order.
IsPermutationOf(s, rows) ==
  /\ Len(s) = Cardinality(rows)
  /\ {s[k] : k \in 1..Len(s)} = rows
SortedDesc(s) == \A k \in 1..(Len(s) - 1) : s[k].issued_date >= s[k + 1].issued_date
SeqsOver(rows) == UNION {[1..n -> rows] : n \in {Cardinality(rows)}}
FindManyDesc_Unordered(rows) == {s \in SeqsOver(rows) : IsPermutationOf(s, rows)}

FindManyDesc(rows) == {s \in SeqsOver(rows) : IsPermutationOf(s, rows) /\ SortedDesc(s)}

\* ----------------------------------------------------------- store writes
\* A transaction's buffered writes applied to the BookIssue table on commit.
RECURSIVE ApplyWrites(_, _)
ApplyWrites(rows, writes) ==
  IF writes = <<>> THEN rows
  ELSE LET w == Head(writes)
           next == IF w.kind = "create"
                   THEN rows \cup {w.row}
                   ELSE {IF i.issue_id = w.row.issue_id
                         THEN [i EXCEPT !.returned_date = w.row.returned_date]
                         ELSE i : i \in rows}
       IN ApplyWrites(next, Tail(writes))

TxLeaky(rows, writes) == ApplyWrites(rows, writes)

\* prisma.$transaction: the BookIssue rows other requests read while a
\* transaction with the given writes is open.
TxIsolated(rows, writes) == rows

\* Row lock: another open transaction has already updated this BookIssue row.
LockedByOther(p, issue_id) ==
  \E q \in Procs \ {p} : \E k \in 1..Len(tx[q]) :
     tx[q][k].kind = "update" /\ tx[q][k].row.issue_id = issue_id

\* ------------------------------------------------------------------- Init
Init ==
  /\ book = [b \in BookIds |-> "AVAILABLE"]
  /\ user = UserIds
  /\ bookIssue = {}
  /\ printJob = {}
  /\ payment = {}
  /\ issueSeq = 0
  /\ now = 1
  /\ req = NoReq
  /\ pc = [p \in Procs |-> "idle"]
  /\ args = [p \in Procs |-> NoArgs]
  /\ issue = [p \in Procs |-> NoIssue]
  /\ tx = [p \in Procs |-> <<>>]
  /\ res = NoRes
  /\ reqCount = 0
  /\ chain = NoChain
  /\ verifyLog = <<>>

\* ---------------------------------------------------------------- helpers
\* The handler of request p sends response r and ends; its locals are gone.
Done(p, r) ==
  /\ pc' = [pc EXCEPT ![p] = "idle"]
  /\ args' = [args EXCEPT ![p] = NoArgs]
  /\ issue' = [issue EXCEPT ![p] = NoIssue]
  /\ res' = r

\* The handler of request p goes on to its next awaited call.
Goto(p, label) ==
  /\ pc' = [pc EXCEPT ![p] = label]
  /\ UNCHANGED <<args, res>>

\* A new request r takes the first free slot.
Accept(p, r) ==
  /\ pc[p] = "idle"
  /\ \A q \in Procs : q < p => pc[q] # "idle"
  /\ reqCount < MaxRequests
  /\ reqCount' = reqCount + 1
  /\ req' = r

\* The request is answered by the middleware or by the handler's first check.
Reject(p, code) == Done(p, Reply(code))

\* The request enters its handler with the validated body a.
Enter(p, label, a) ==
  /\ pc' = [pc EXCEPT ![p] = label]
  /\ args' = [args EXCEPT ![p] = a]
  /\ UNCHANGED <<issue, res>>

\* History of "a return, then at once an issue of the same book": a step of
\* request p either continues the issue request that follows the return or
\* breaks the chain.
ChainStep(p, finished) ==
  chain' = IF chain.stage = "issuing" /\ chain.proc = p
           THEN (IF finished THEN [chain EXCEPT !.stage = "done"] ELSE chain)
           ELSE NoChain

\* ------------------------------------------------------------ POST /issue
\* Middleware of POST /issue, the destructuring of the body,
\* prisma.book.findUnique and the two checks on its result.
IssueRequest(p, cred, b, u, d) ==
  /\ Accept(p, [op |-> "issue", cred |-> cred, book_id |-> b, user_id |-> u,
                issue_id |-> NULL])
  /\ LET g == Gate(CirculationRoles, cred) IN
       IF g # 0 THEN
         Reject(p, g) /\ chain' = NoChain
       ELSE IF ~issueSchema(b, u) THEN
         Reject(p, 400) /\ chain' = NoChain
       ELSE IF BookCheck(b) # 0 THEN
         /\ Reject(p, BookCheck(b))
         /\ chain' = IF chain.stage = "returned" /\ chain.book_id = b /\ u \in user
                     THEN [stage |-> "done", book_id |-> b, proc |-> p]
                     ELSE NoChain
       ELSE
         /\ Enter(p, "issue_findUser", [book_id |-> b, user_id |-> u,
                                        issue_id |-> NULL, due_date |-> d])
         /\ chain' = IF chain.stage = "returned" /\ chain.book_id = b /\ u \in user
                     THEN [stage |-> "issuing", book_id |-> b, proc |-> p]
                     ELSE NoChain
  /\ UNCHANGED <<store, issueSeq, now, tx, verifyLog>>

\* prisma.user.findUnique and the check on its result.
IssueFindUser(p) ==
  /\ pc[p] = "issue_findUser"
  /\ IF UserCheck(args[p].user_id) # 0 THEN
       Done(p, Reply(UserCheck(args[p].user_id))) /\ ChainStep(p, TRUE)
     ELSE
       Goto(p, "issue_create") /\ UNCHANGED issue /\ ChainStep(p, FALSE)
  /\ UNCHANGED <<store, issueSeq, now, req, tx, reqCount, verifyLog>>

\* tx.bookIssue.create: the new row is written inside the transaction.
IssueCreate(p) ==
  /\ pc[p] = "issue_create"
  /\ LET created == [issue_id |-> issueSeq + 1,
                     book_id |-> args[p].book_id,
                     user_id |-> args[p].user_id,
                     issued_date |-> now,
                     due_date |-> args[p].due_date,
                     returned_date |-> NULL] IN
       /\ tx' = [tx EXCEPT ![p] = <<[kind |-> "create", row |-> created]>>]
       /\ issue' = [issue EXCEPT ![p] = created]
  /\ bookIssue' = TxIsolated(bookIssue, tx'[p])
  /\ issueSeq' = issueSeq + 1
  /\ Goto(p, "issue_update")
  /\ ChainStep(p, FALSE)
  /\ UNCHANGED <<book, user, printJob, payment, now, req, reqCount, verifyLog>>

\* tx.book.update, the commit of the transaction and the 201 response.
IssueUpdate(p) ==
  /\ pc[p] = "issue_update"
  /\ bookIssue' = ApplyWrites(bookIssue, tx[p])
  /\ book' = [b \in DOMAIN book |-> IF b = args[p].book_id THEN "ISSUED" ELSE book[b]]
  /\ tx' = [tx EXCEPT ![p] = <<>>]
  /\ Done(p, ReplyIssue(201, issue[p]))
  /\ ChainStep(p, TRUE)
  /\ UNCHANGED <<user, printJob, payment, issueSeq, now, req, reqCount, verifyLog>>

\* ----------------------------------------------------------- POST /return
\* Middleware of POST /return, the check that a selector is present,
\* prisma.bookIssue.findFirst and the check on its result.
ReturnRequest(p, cred, iid, b) ==
  /\ Accept(p, [op |-> "return", cred |-> cred, book_id |-> b, user_id |-> "",
                issue_id |-> iid])
  /\ LET g == Gate(CirculationRoles, cred)
         rows == ReturnWhere(iid, b) IN
       IF g # 0 THEN
         Reject(p, g)
       ELSE IF selectorMissing(iid, b) THEN
         Reject(p, 400)
       ELSE IF rows = {} THEN
         Reject(p, 404)
       ELSE
         /\ pc' = [pc EXCEPT ![p] = "return_updateIssue"]
         /\ args' = [args EXCEPT ![p] = [book_id |-> b, user_id |-> "",
                                         issue_id |-> iid, due_date |-> NULL]]
         /\ \E i \in FindFirstDesc(rows) : issue' = [issue EXCEPT ![p] = i]
         /\ UNCHANGED res
  /\ chain' = NoChain
  /\ UNCHANGED <<store, issueSeq, now, tx, verifyLog>>

\* tx.bookIssue.update: returned_date is written inside the transaction.
ReturnUpdateIssue(p) ==
  /\ pc[p] = "return_updateIssue"
  /\ ~LockedByOther(p, issue[p].issue_id)
  /\ LET cur == CHOOSE i \in bookIssue : i.issue_id = issue[p].issue_id
         updated == [cur EXCEPT !.returned_date = now] IN
       tx' = [tx EXCEPT ![p] = <<[kind |-> "update", row |-> updated]>>]
  /\ bookIssue' = TxIsolated(bookIssue, tx'[p])
  /\ Goto(p, "return_updateBook")
  /\ chain' = NoChain
  /\ UNCHANGED <<book, user, printJob, payment, issueSeq, now, req, issue, reqCount, verifyLog>>

ReturnedBook_FromBody(p) == args[p].book_id

\* where: { book_id: issue.book_id }: the book the return makes AVAILABLE.
ReturnedBook(p) == issue[p].book_id

\* tx.book.update, the commit of the transaction and the 200 response.
ReturnUpdateBook(p) ==
  /\ pc[p] = "return_updateBook"
  /\ bookIssue' = ApplyWrites(bookIssue, tx[p])
  /\ book' = [b \in DOMAIN book |-> IF b = ReturnedBook(p) THEN "AVAILABLE" ELSE book[b]]
  /\ Done(p, ReplyIssue(200, tx[p][1].row))
  /\ tx' = [tx EXCEPT ![p] = <<>>]
  /\ chain' = [stage |-> "returned", book_id |-> issue[p].book_id, proc |-> 0]
  /\ UNCHANGED <<user, printJob, payment, issueSeq, now, req, reqCount, verifyLog>>

\* ------------------------------------------------------------ GET /issued
\* Middleware of GET /issued, prisma.bookIssue.findMany and the 200 response.
ListIssued(p, cred) ==
  /\ Accept(p, [op |-> "list", cred |-> cred, book_id |-> "", user_id |-> "",
                issue_id |-> NULL])
  /\ LET g == Gate(CirculationRoles, cred) IN
       IF g # 0 THEN Reject(p, g)
       ELSE \E s \in FindManyDesc(OpenIssues) : Done(p, ReplyItems(200, s))
  /\ chain' = NoChain
  /\ UNCHANGED <<store, issueSeq, now, tx, verifyLog>>

\* ------------------------------------------------------------ environment
\* The store fails a statement of an open transaction: the transaction is
\* rolled back and the error handler answers 500.
TxFail(p) ==
  /\ pc[p] \in {"issue_update", "return_updateBook"}
  /\ tx' = [tx EXCEPT ![p] = <<>>]
  /\ Done(p, Reply(500))
  /\ ChainStep(p, TRUE)
  /\ UNCHANGED <<store, issueSeq, now, req, reqCount, verifyLog>>

\* Time passes.
Tick ==
  /\ now < MaxTime
  /\ now' = now + 1
  /\ UNCHANGED <<store, issueSeq, req, pc, args, issue, tx, res, reqCount, chain, verifyLog>>

\* ------------------------------------------------------------------- Next
Bodies == (BookIds \cup {MissingBook, ""}) \X (UserIds \cup {MissingUser})
Selectors == (IssueIds \cup {NULL}) \X (BookIds \cup {MissingBook, ""})

Next ==
  \/ \E p \in Procs, cred \in Creds, d \in DueDates : IssueRequest(p, cred, "b1", "u1", d)
  \/ \E p \in Procs, body \in Bodies, d \in DueDates :
       IssueRequest(p, "LIBRARY_ADMIN", body[1], body[2], d)
  \/ \E p \in Procs : IssueFindUser(p)
  \/ \E p \in Procs : IssueCreate(p)
  \/ \E p \in Procs : IssueUpdate(p)
  \/ \E p \in Procs, cred \in Creds : ReturnRequest(p, cred, NULL, "b1")
  \/ \E p \in Procs, sel \in Selectors : ReturnRequest(p, "SUPER_ADMIN", sel[1], sel[2])
  \/ \E p \in Procs : ReturnUpdateIssue(p)
  \/ \E p \in Procs : ReturnUpdateBook(p)
  \/ \E p \in Procs, cred \in Creds : ListIssued(p, cred)
  \/ \E p \in Procs : TxFail(p)
  \/ Tick

Spec == Init /\ [][Next]_vars

\* ======================================================== steps of requests
\* This step accepts a request of kind op whose middleware lets it through.
Handled(op) ==
  /\ reqCount' = reqCount + 1
  /\ req'.op = op
  /\ Gate(CirculationRoles, req'.cred) = 0

\* This step answers the request it accepts (no handler keeps running).
AnsweredAtOnce == pc' = pc

\* No handler is running: res answers req.
AllIdle == \A p \in Procs : pc[p] = "idle"

\* ---------------------------------------------------------------------- C1
\* C1: in every reachable state each book is ISSUED iff exactly one BookIssue
\* of that book has returned_date = null, and AVAILABLE iff it has none.
C1_StatusIffOneOpenIssue ==
  \A b \in DOMAIN book :
    /\ book[b] = "ISSUED" <=> Cardinality(OpenIssuesOf(b)) = 1
    /\ book[b] = "AVAILABLE" <=> OpenIssuesOf(b) = {}

\* ---------------------------------------------------------------------- C2
\* C2: of two concurrent issueBook requests for one AVAILABLE book only one
\* commits, so a book_id never has more than one open BookIssue.
C2_AtMostOneOpenIssue ==
  \A b \in DOMAIN book : Cardinality(OpenIssuesOf(b)) <= 1

\* ---------------------------------------------------------------------- C3
\* C3: issueBook that finds its book with status ISSUED is answered Conflict
\* (409) at once, creates no BookIssue and changes no book status.
C3_IssuedBookConflict ==
  [][ (/\ Handled("issue")
       /\ req'.book_id \in DOMAIN book
       /\ book[req'.book_id] = "ISSUED")
      => (/\ res'.status = 409
          /\ AnsweredAtOnce
          /\ bookIssue' = bookIssue
          /\ book' = book
          /\ tx' = tx) ]_vars

\* An issueBook on an ISSUED book has just been answered 409.
C3_Witness ==
  /\ AllIdle
  /\ req.op = "issue"
  /\ req.book_id \in DOMAIN book
  /\ book[req.book_id] = "ISSUED"
  /\ OpenIssuesOf(req.book_id) # {}
  /\ res.status = 409

\* ---------------------------------------------------------------------- C4
\* The BookIssue rows this step creates.
NewIssues == {i \in bookIssue' : \A j \in bookIssue : j.issue_id # i.issue_id}

\* C4: a successful issueBook adds exactly one BookIssue with returned_date =
\* null for its book and user and sets that book ISSUED in one step, changing
\* nothing else; no step shows the new row without the status or the status
\* without the new row.
C4_IssueIsAtomic ==
  [][ /\ \A p \in Procs :
           (pc[p] = "issue_update" /\ pc'[p] = "idle" /\ res'.status = 201)
           => LET new == NewIssues IN
                /\ Cardinality(new) = 1
                /\ \A i \in new : /\ i.returned_date = NULL
                                  /\ i.book_id = args[p].book_id
                                  /\ i.user_id = args[p].user_id
                                  /\ i.due_date = args[p].due_date
                                  /\ i = res'.issue
                /\ bookIssue \subseteq bookIssue'
                /\ DOMAIN book' = DOMAIN book
                /\ book'[args[p].book_id] = "ISSUED"
                /\ \A b \in DOMAIN book \ {args[p].book_id} : book'[b] = book[b]
                /\ UNCHANGED <<user, printJob, payment>>
      /\ \A b \in DOMAIN book :
           /\ (\E i \in NewIssues : i.book_id = b) => book'[b] = "ISSUED"
           /\ (book[b] # "ISSUED" /\ book'[b] = "ISSUED")
              => \E i \in NewIssues : i.book_id = b /\ i.returned_date = NULL
    ]_vars

\* An issueBook has just committed: its row is open and its book is ISSUED,
\* next to a book it left AVAILABLE.
C4_Witness ==
  /\ AllIdle
  /\ req.op = "issue"
  /\ res.status = 201
  /\ res.issue \in OpenIssuesOf(req.book_id)
  /\ book[req.book_id] = "ISSUED"
  /\ \E b \in DOMAIN book : b # req.book_id /\ book[b] = "AVAILABLE"

\* ---------------------------------------------------------------------- C5
IssuePcs == {"issue_findUser", "issue_create", "issue_update"}

\* C5 as stated: issueBook is answered NotFound (404) whenever its book or its
\* user does not exist, whatever the book's status, and writes nothing.
C5_NotFoundWheneverMissing ==
  [][ /\ (/\ Handled("issue")
          /\ issueSchema(req'.book_id, req'.user_id)
          /\ (req'.book_id \notin DOMAIN book \/ req'.user_id \notin user)
          /\ AnsweredAtOnce)
         => (res'.status = 404 /\ UNCHANGED <<store, tx>>)
      /\ \A p \in Procs :
           (/\ pc[p] \in IssuePcs
            /\ pc'[p] = "idle"
            /\ args[p].user_id \notin user)
           => (res'.status = 404 /\ UNCHANGED <<store, tx>>)
    ]_vars

\* C5 amended: issueBook is answered NotFound when its book does not exist,
\* and when its book is found AVAILABLE and its user does not exist; when the
\* book is found with another status it is answered Conflict (409) even if the
\* user does not exist; in each case it writes nothing.
C5_NotFoundUnlessConflict ==
  [][ /\ (/\ Handled("issue")
          /\ issueSchema(req'.book_id, req'.user_id)
          /\ req'.book_id \notin DOMAIN book)
         => (res'.status = 404 /\ AnsweredAtOnce /\ UNCHANGED <<store, tx>>)
      /\ (/\ Handled("issue")
          /\ req'.book_id \in DOMAIN book
          /\ book[req'.book_id] # "AVAILABLE"
          /\ req'.user_id \notin user)
         => (res'.status = 409 /\ AnsweredAtOnce /\ UNCHANGED <<store, tx>>)
      /\ \A p \in Procs :
           (/\ pc[p] \in IssuePcs
            /\ pc'[p] # pc[p]
            /\ args[p].user_id \notin user)
           => (pc'[p] = "idle" /\ res'.status = 404 /\ UNCHANGED <<store, tx>>)
    ]_vars

\* An issueBook of an AVAILABLE book to a user that does not exist has just
\* been answered 404.
C5_Witness ==
  /\ AllIdle
  /\ req.op = "issue"
  /\ req.book_id \in DOMAIN book
  /\ book[req.book_id] = "AVAILABLE"
  /\ req.user_id \notin user
  /\ res.status = 404

\* ---------------------------------------------------------------------- C6
\* C6: returnBook given neither issue_id nor book_id is answered BadRequest
\* (400) and leaves every Book and BookIssue unchanged.
C6_NoSelectorBadRequest ==
  [][ (/\ Handled("return")
       /\ req'.issue_id = NULL
       /\ req'.book_id = "")
      => (/\ res'.status = 400
          /\ AnsweredAtOnce
          /\ UNCHANGED <<store, tx>>) ]_vars

\* A returnBook without selectors has just been answered 400 while an open
\* issue exists that it could have closed.
C6_Witness ==
  /\ AllIdle
  /\ req.op = "return"
  /\ req.issue_id = NULL
  /\ req.book_id = ""
  /\ res.status = 400
  /\ OpenIssues # {}

\* ---------------------------------------------------------------------- C7
\* The open BookIssue rows that match every selector the caller supplied.
Matching(issue_id, book_id) ==
  {i \in bookIssue : /\ i.returned_date = NULL
                     /\ (issue_id # NULL => i.issue_id = issue_id)
                     /\ (book_id # "" => i.book_id = book_id)}

\* C7: returnBook selects, among the open BookIssues matching every supplied
\* selector, one with the latest issued_date, and is answered NotFound (404)
\* when no open issue matches.
C7_ReturnSelectsLatestOpen ==
  [][ (/\ Handled("return")
       /\ ~(req'.issue_id = NULL /\ req'.book_id = ""))
      => LET m == Matching(req'.issue_id, req'.book_id) IN
           IF m = {}
           THEN res'.status = 404 /\ AnsweredAtOnce /\ UNCHANGED <<store, tx>>
           ELSE \E p \in Procs :
                  /\ pc[p] = "idle"
                  /\ pc'[p] = "return_updateIssue"
                  /\ issue'[p] \in m
                  /\ \A j \in m : j.issued_date <= issue'[p].issued_date
    ]_vars

\* A returnBook by book_id has selected the later of two open issues of its book.
C7_Witness ==
  \E p \in Procs :
    /\ pc[p] = "return_updateIssue"
    /\ args[p].issue_id = NULL
    /\ issue[p] \in OpenIssuesOf(args[p].book_id)
    /\ \E j \in OpenIssuesOf(args[p].book_id) : j.issued_date < issue[p].issued_date

\* ---------------------------------------------------------------------- C8
\* C8: a successful returnBook sets returned_date on the matched issue and
\* sets AVAILABLE the book that issue references, in one step; no other book
\* and no other BookIssue changes, and no step shows the issue closed with
\* its book still ISSUED.
C8_ReturnIsAtomic ==
  [][ /\ \A p \in Procs :
           (pc[p] = "return_updateBook" /\ pc'[p] = "idle" /\ res'.status = 200)
           => /\ \E i \in bookIssue' :
                   /\ i.issue_id = issue[p].issue_id
                   /\ i.returned_date # NULL
                   /\ i = [issue[p] EXCEPT !.returned_date = i.returned_date]
                   /\ i = res'.issue
              /\ \A i \in bookIssue : i.issue_id # issue[p].issue_id => i \in bookIssue'
              /\ Cardinality(bookIssue') = Cardinality(bookIssue)
              /\ DOMAIN book' = DOMAIN book
              /\ book'[issue[p].book_id] = "AVAILABLE"
              /\ \A b \in DOMAIN book \ {issue[p].book_id} : book'[b] = book[b]
              /\ UNCHANGED <<user, printJob, payment>>
      /\ \A i \in bookIssue, j \in bookIssue' :
           (i.issue_id = j.issue_id /\ i.returned_date = NULL /\ j.returned_date # NULL)
           => book'[i.book_id] = "AVAILABLE"
    ]_vars

\* A returnBook by issue_id alone has just committed: the issue's book is
\* AVAILABLE and another book is still ISSUED.
C8_Witness ==
  /\ AllIdle
  /\ req.op = "return"
  /\ req.book_id = ""
  /\ req.issue_id # NULL
  /\ res.status = 200
  /\ res.issue \in bookIssue
  /\ book[res.issue.book_id] = "AVAILABLE"
  /\ \E b \in DOMAIN book : b # res.issue.book_id /\ book[b] = "ISSUED"

\* ---------------------------------------------------------------------- C9
\* C9: when a returnBook has committed for a book and an issueBook of that
\* book to an existing user runs next, with no step of another request in
\* between and no failure of the store, the issueBook is answered 201, the
\* book is ISSUED and its only open issue is the new one.
C9_ReturnThenIssueSucceeds ==
  (chain.stage = "done" /\ res.status # 500)
  => /\ res.status = 201
     /\ book[chain.book_id] = "ISSUED"
     /\ OpenIssuesOf(chain.book_id) = {res.issue}

\* ---------------------------------------------------------------------- C10
\* C10: listIssued answers with exactly the BookIssues whose returned_date is
\* null, each once, ordered by issued_date descending, and changes no Book,
\* BookIssue, PrintJob or Payment.
C10_ListIssuedOpenDescending ==
  [][ Handled("list")
      => /\ res'.status = 200
         /\ AnsweredAtOnce
         /\ {res'.items[k] : k \in 1..Len(res'.items)}
              = {i \in bookIssue : i.returned_date = NULL}
         /\ \A k, l \in 1..Len(res'.items) :
              /\ (k # l => res'.items[k] # res'.items[l])
              /\ (k < l => res'.items[k].issued_date >= res'.items[l].issued_date)
         /\ UNCHANGED <<book, bookIssue, printJob, payment, user, tx>>
    ]_vars

\* A listIssued has just answered with two open issues, the later one first.
C10_Witness ==
  /\ AllIdle
  /\ req.op = "list"
  /\ res.status = 200
  /\ Len(res.items) = 2
  /\ res.items[1].issued_date > res.items[2].issued_date
  /\ {res.items[1], res.items[2]} = OpenIssues

(***************************************************************************)
(* Payment engine (routes/payment.ts, kept in src/src/config.ts).  A        *)
(* request carries the token's userId and role; the routes use requireAuth *)
(* only.  POST /initiate reads the PrintJob and creates the Payment in two *)
(* separate awaited calls; POST /verify reads the Payment and then updates *)
(* the Payment and its PrintJob inside one prisma.$transaction.            *)
(***************************************************************************)
\* ------------------------------------------------------------- input sets
PayUsers == {"u1", "u2"}            \* token subjects
PrintIds == {"p1", "p2"}            \* print jobs in the store
MissingPrint == "p0"                \* a print_id no job has
NoMethod == ""                      \* payment_method absent from the body
PAYMENT_METHODS == {"UPI", "GPAY"}
PAYMENT_OUTCOMES == {"SUCCESS", "FAILED"}
TransactionIds == {"t1", "t2"}
PaymentIds == {1, 2, 3}             \* payment_id values a caller may name
UPI_VPA == "library@upi"
UPI_PAYEE_NAME == "E-Library"

\* ---------------------------------------------------------------- records
NoPayment == [payment_id |-> 0, user_id |-> "", print_id |-> "", payment_method |-> "",
              transaction_id |-> "", payment_status |-> "", paid_at |-> NULL]
NoPayArgs == [user_id |-> "", print_id |-> "", payment_method |-> "", payment_id |-> 0,
              transaction_id |-> "", payment_status |-> "", total_cost |-> 0]
NoPayReq == [op |-> "", cred |-> NoCred, user_id |-> "", print_id |-> "",
             payment_method |-> "", payment_id |-> 0, transaction_id |-> "",
             payment_status |-> ""]
NoUri == [pa |-> "", pn |-> "", am |-> <<>>, cu |-> "", tn |-> <<>>, tr |-> 0]
NoPayRes == [status |-> 0, payment |-> NoPayment, upi_uri |-> NoUri]

PayReply(code) == [status |-> code, payment |-> NoPayment, upi_uri |-> NoUri]
PayReplyWith(code, row, uri) == [status |-> code, payment |-> row, upi_uri |-> uri]

\* ------------------------------------------------------- body validation
\* initiateSchema: print_id is a non-empty string, payment_method one of the
\* enumerated values or absent.
initiateSchema(print_id, method) ==
  print_id # "" /\ method \in PAYMENT_METHODS \cup {NoMethod}

\* .default('UPI') of initiateSchema.payment_method.
MethodOrDefault(method) == IF method = NoMethod THEN "UPI" ELSE method

verifySchema_AnyStatus(payment_id, transaction_id, status) ==
  payment_id # 0 /\ transaction_id # ""

\* verifySchema: payment_id and transaction_id are non-empty strings and
\* payment_status is SUCCESS or FAILED.
verifySchema(payment_id, transaction_id, status) ==
  payment_id # 0 /\ transaction_id # "" /\ status \in PAYMENT_OUTCOMES

\* ------------------------------------------------------------ store reads
\* prisma.printJob.findUnique({ where: { print_id } }): a set of 0 or 1 rows.
FindJob(print_id) == {j \in printJob : j.print_id = print_id}

\* prisma.payment.findUnique({ where: { payment_id } }): a set of 0 or 1 rows.
FindPayment(payment_id) == {r \in payment : r.payment_id = payment_id}

JobCheck_OnlyPending(uid, print_id) ==
  IF FindJob(print_id) = {} THEN 404
  ELSE LET job == CHOOSE j \in FindJob(print_id) : TRUE IN
       IF job.user_id # uid THEN 403
       ELSE IF job.payment_status # "PENDING" THEN 409
       ELSE 0

JobCheck_NoPaidCheck(uid, print_id) ==
  IF FindJob(print_id) = {} THEN 404
  ELSE LET job == CHOOSE j \in FindJob(print_id) : TRUE IN
       IF job.user_id # uid THEN 403 ELSE 0

\* The checks of POST /initiate on the job it read: 0 when all pass.
JobCheck(uid, print_id) ==
  IF FindJob(print_id) = {} THEN 404
  ELSE LET job == CHOOSE j \in FindJob(print_id) : TRUE IN
       IF job.user_id # uid THEN 403
       ELSE IF job.payment_status = "SUCCESS" THEN 409
       ELSE 0

PaymentCheck_NoOwnerCheck(uid, payment_id) ==
  IF FindPayment(payment_id) = {} THEN 404 ELSE 0

\* The checks of POST /verify on the payment it read: 0 when all pass.
PaymentCheck(uid, payment_id) ==
  IF FindPayment(payment_id) = {} THEN 404
  ELSE LET pay == CHOOSE r \in FindPayment(payment_id) : TRUE IN
       IF pay.user_id # uid THEN 403
       ELSE 0

\* ----------------------------------------------------------- store writes
NewPayment_PaidAtNow(a) ==
  [payment_id |-> Cardinality(payment) + 1, user_id |-> a.user_id,
   print_id |-> a.print_id, payment_method |-> a.payment_method,
   transaction_id |-> "", payment_status |-> "PENDING", paid_at |-> now]

\* The row prisma.payment.create stores for the validated body a; the
\* columns the call leaves out (transaction_id, paid_at) are null.
NewPayment(a) ==
  [payment_id |-> Cardinality(payment) + 1, user_id |-> a.user_id,
   print_id |-> a.print_id, payment_method |-> a.payment_method,
   transaction_id |-> "", payment_status |-> "PENDING", paid_at |-> NULL]

PaidAt_Always(status) == now

\* paid_at of tx.payment.update.
PaidAt(status) == IF status = "SUCCESS" THEN now ELSE NULL

\* The data of tx.payment.update for the validated body a.
PaymentData(a) ==
  [kind |-> "payment", payment_id |-> a.payment_id, transaction_id |-> a.transaction_id,
   payment_status |-> a.payment_status, paid_at |-> PaidAt(a.payment_status)]

UpdatePayment_KeepSuccess(rows, d) ==
  {IF r.payment_id = d.payment_id /\ r.payment_status # "SUCCESS"
   THEN [r EXCEPT !.transaction_id = d.transaction_id,
                  !.payment_status = d.payment_status,
                  !.paid_at = d.paid_at]
   ELSE r : r \in rows}

\* tx.payment.update applied to the Payment table.
UpdatePayment(rows, d) ==
  {IF r.payment_id = d.payment_id
   THEN [r EXCEPT !.transaction_id = d.transaction_id,
                  !.payment_status = d.payment_status,
                  !.paid_at = d.paid_at]
   ELSE r : r \in rows}

UpdateJob_IfPending(rows, print_id, status) ==
  {IF j.print_id = print_id /\ j.payment_status = "PENDING"
   THEN [j EXCEPT !.payment_status = status]
   ELSE j : j \in rows}

\* tx.printJob.update applied to the PrintJob table.
UpdateJob(rows, print_id, status) ==
  {IF j.print_id = print_id THEN [j EXCEPT !.payment_status = status] ELSE j : j \in rows}

PayTxLeaky(rows, d) ==
  {IF r.payment_id = d.payment_id
   THEN [r EXCEPT !.transaction_id = d.transaction_id,
                  !.payment_status = d.payment_status,
                  !.paid_at = d.paid_at]
   ELSE r : r \in rows}

\* prisma.$transaction: the Payment rows other requests read while a
\* transaction that has updated a Payment is open.
PayTxIsolated(rows, d) == rows

\* Row lock: another open transaction has already updated this Payment row.
PayLockedByOther(p, payment_id) ==
  \E q \in Procs \ {p} :
    tx[q] # <<>> /\ tx[q][1].kind = "payment" /\ tx[q][1].payment_id = payment_id

\* The character of a decimal digit.
DigitChar(d) == <<"0", "1", "2", "3", "4", "5", "6", "7", "8", "9">>[d + 1]

\* The decimal digits of a whole number, most significant first.
RECURSIVE ToDigits(_)
ToDigits(n) ==
  IF n < 10 THEN <<DigitChar(n)>>
  ELSE Append(ToDigits(n \div 10), DigitChar(n % 10))

ToFixed2_NoDecimals(amount) == ToDigits(amount)

\* toFixed(2) of a whole amount: its digits, the point and two zeros.
ToFixed2(amount) == ToDigits(amount) \o <<".", "0", "0">>

\* buildUpiPayUri: the query parameters of the upi://pay URI.
buildUpiPayUri(payeeVpa, payeeName, amount, transactionNote, transactionRef) ==
  [pa |-> payeeVpa, pn |-> payeeName, am |-> ToFixed2(amount), cu |-> "INR",
   tn |-> transactionNote, tr |-> transactionRef]

\* ------------------------------------------------------------------- Init
\* Two uploaded print jobs, one of each user, not yet paid.
InitPay ==
  /\ book = [b \in BookIds |-> "AVAILABLE"]
  /\ user = PayUsers
  /\ bookIssue = {}
  /\ printJob = {[print_id |-> "p1", user_id |-> "u1", total_pages |-> 3,
                  cost_per_page |-> 2, total_cost |-> 6, payment_status |-> "PENDING"],
                 [print_id |-> "p2", user_id |-> "u2", total_pages |-> 1,
                  cost_per_page |-> 2, total_cost |-> 2, payment_status |-> "PENDING"]}
  /\ payment = {}
  /\ issueSeq = 0
  /\ now = 1
  /\ req = NoPayReq
  /\ pc = [p \in Procs |-> "idle"]
  /\ args = [p \in Procs |-> NoPayArgs]
  /\ issue = [p \in Procs |-> NoIssue]
  /\ tx = [p \in Procs |-> <<>>]
  /\ res = NoPayRes
  /\ reqCount = 0
  /\ chain = NoChain
  /\ verifyLog = <<>>

\* ---------------------------------------------------------------- helpers
\* The handler of request p sends response r and ends; its locals are gone.
PayDone(p, r) ==
  /\ pc' = [pc EXCEPT ![p] = "idle"]
  /\ args' = [args EXCEPT ![p] = NoPayArgs]
  /\ res' = r

\* The request enters its handler with the validated body a.
PayEnter(p, label, a) ==
  /\ pc' = [pc EXCEPT ![p] = label]
  /\ args' = [args EXCEPT ![p] = a]
  /\ UNCHANGED res

\* -------------------------------------------------------- POST /initiate
\* requireAuth, validateBody(initiateSchema), prisma.printJob.findUnique and
\* the three checks on its result.
InitiateRequest(p, cred, uid, print_id, method) ==
  /\ Accept(p, [op |-> "initiate", cred |-> cred, user_id |-> uid, print_id |-> print_id,
                payment_method |-> method, payment_id |-> 0, transaction_id |-> "",
                payment_status |-> ""])
  /\ IF ~requireAuth(cred) THEN PayDone(p, PayReply(401))
     ELSE IF ~initiateSchema(print_id, method) THEN PayDone(p, PayReply(400))
     ELSE IF JobCheck(uid, print_id) # 0 THEN PayDone(p, PayReply(JobCheck(uid, print_id)))
     ELSE LET job == CHOOSE j \in FindJob(print_id) : TRUE IN
          PayEnter(p, "initiate_create",
                   [NoPayArgs EXCEPT !.user_id = uid, !.print_id = print_id,
                                     !.payment_method = MethodOrDefault(method),
                                     !.total_cost = job.total_cost])
  /\ UNCHANGED <<store, issueSeq, now, issue, tx, chain, verifyLog>>

\* prisma.payment.create, buildUpiPayUri and the 201 response.
InitiateCreate(p) ==
  /\ pc[p] = "initiate_create"
  /\ LET created == NewPayment(args[p])
         upiUri == buildUpiPayUri(UPI_VPA, UPI_PAYEE_NAME, args[p].total_cost,
                                  <<"Print job ", args[p].print_id>>, created.payment_id)
     IN /\ payment' = payment \cup {created}
        /\ PayDone(p, PayReplyWith(201, created, upiUri))
  /\ UNCHANGED <<book, user, bookIssue, printJob, issueSeq, now, req, issue, tx,
                 reqCount, chain, verifyLog>>

\* ---------------------------------------------------------- POST /verify
\* requireAuth, validateBody(verifySchema), prisma.payment.findUnique and the
\* two checks on its result.
VerifyRequest(p, cred, uid, payment_id, transaction_id, status) ==
  /\ Accept(p, [op |-> "verify", cred |-> cred, user_id |-> uid, print_id |-> "",
                payment_method |-> "", payment_id |-> payment_id,
                transaction_id |-> transaction_id, payment_status |-> status])
  /\ IF ~requireAuth(cred) THEN PayDone(p, PayReply(401))
     ELSE IF ~verifySchema(payment_id, transaction_id, status) THEN PayDone(p, PayReply(400))
     ELSE IF PaymentCheck(uid, payment_id) # 0
     THEN PayDone(p, PayReply(PaymentCheck(uid, payment_id)))
     ELSE LET pay == CHOOSE r \in FindPayment(payment_id) : TRUE IN
          PayEnter(p, "verify_updatePayment",
                   [NoPayArgs EXCEPT !.user_id = uid, !.print_id = pay.print_id,
                                     !.payment_id = payment_id,
                                     !.transaction_id = transaction_id,
                                     !.payment_status = status])
  /\ UNCHANGED <<store, issueSeq, now, issue, tx, chain, verifyLog>>

\* tx.payment.update: the first statement of the transaction.
VerifyUpdatePayment(p) ==
  /\ pc[p] = "verify_updatePayment"
  /\ ~PayLockedByOther(p, args[p].payment_id)
  /\ tx' = [tx EXCEPT ![p] = <<PaymentData(args[p])>>]
  /\ payment' = PayTxIsolated(payment, PaymentData(args[p]))
  /\ Goto(p, "verify_updateJob")
  /\ UNCHANGED <<book, user, bookIssue, printJob, issueSeq, now, req, issue,
                 reqCount, chain, verifyLog>>

\* This verify commits while another request is inside POST /verify for the
\* same payment.
Rival(p) ==
  \E q \in Procs \ {p} : pc[q] \in {"verify_updatePayment", "verify_updateJob"}
                         /\ args[q].payment_id = args[p].payment_id

\* tx.printJob.update, the commit of the transaction and the response.
VerifyUpdateJob(p) ==
  /\ pc[p] = "verify_updateJob"
  /\ payment' = UpdatePayment(payment, tx[p][1])
  /\ printJob' = UpdateJob(printJob, args[p].print_id, args[p].payment_status)
  /\ tx' = [tx EXCEPT ![p] = <<>>]
  /\ verifyLog' = Append(verifyLog, [payment_id |-> args[p].payment_id,
                                     print_id |-> args[p].print_id,
                                     transaction_id |-> args[p].transaction_id,
                                     payment_status |-> args[p].payment_status,
                                     rival |-> Rival(p)])
  /\ \E updated \in {r \in payment' : r.payment_id = args[p].payment_id} :
       PayDone(p, PayReplyWith(200, updated, NoUri))
  /\ UNCHANGED <<book, user, bookIssue, issueSeq, now, req, issue, reqCount, chain>>

VerifyTxFail_Partial(p) ==
  /\ pc[p] = "verify_updateJob"
  /\ payment' = UpdatePayment(payment, tx[p][1])
  /\ tx' = [tx EXCEPT ![p] = <<>>]
  /\ PayDone(p, PayReply(500))
  /\ UNCHANGED <<book, user, bookIssue, printJob, issueSeq, now, req, issue, reqCount,
                 chain, verifyLog>>

\* The store fails the second statement of the transaction: the transaction
\* is rolled back and the error handler answers 500.
VerifyTxFail(p) ==
  /\ pc[p] = "verify_updateJob"
  /\ tx' = [tx EXCEPT ![p] = <<>>]
  /\ PayDone(p, PayReply(500))
  /\ UNCHANGED <<store, issueSeq, now, req, issue, reqCount, chain, verifyLog>>

\* ------------------------------------------------------------------- Next
InitiateBodies == (PrintIds \cup {MissingPrint, ""}) \X (PAYMENT_METHODS \cup {NoMethod, "CARD"})
VerifyBodies == PaymentIds \X (TransactionIds \cup {""}) \X (PAYMENT_OUTCOMES \cup {"PENDING"})

NextPay ==
  \/ \E p \in Procs, cred \in Creds : InitiateRequest(p, cred, "u2", "p1", "UPI")
  \/ \E p \in Procs, body \in InitiateBodies :
       InitiateRequest(p, "USER", "u1", body[1], body[2])
  \/ \E p \in Procs : InitiateCreate(p)
  \/ \E p \in Procs, cred \in Creds : VerifyRequest(p, cred, "u2", 1, "t1", "SUCCESS")
  \/ \E p \in Procs, body \in VerifyBodies :
       VerifyRequest(p, "USER", "u1", body[1], body[2], body[3])
  \/ \E p \in Procs : VerifyUpdatePayment(p)
  \/ \E p \in Procs : VerifyUpdateJob(p)
  \/ \E p \in Procs : VerifyTxFail(p)
  \/ Tick

SpecPay == InitPay /\ [][NextPay]_vars

\* ============================================ steps of payment requests
\* This step accepts a request of kind op that carries a valid token.
PayHandled(op) ==
  /\ reqCount' = reqCount + 1
  /\ req'.op = op
  /\ requireAuth(req'.cred)

\* The Payments created in this step.
NewPayments == {r \in payment' : \A q \in payment : q.payment_id # r.payment_id}

\* The job has been moved to SUCCESS by a verify that committed.
EverPaid(print_id) ==
  \E k \in 1..Len(verifyLog) :
    verifyLog[k].print_id = print_id /\ verifyLog[k].payment_status = "SUCCESS"

\* ---------------------------------------------------------------------- C11
\* C11: initiatePayment by the owner of a PrintJob whose payment_status is
\* SUCCESS is answered Conflict (409) at once, whatever payment_method the
\* body carries (UPI, GPAY or none), and creates no Payment.
C11_PaidJobConflict ==
  [][ ( /\ PayHandled("initiate")
        /\ initiateSchema(req'.print_id, req'.payment_method)
        /\ \E j \in printJob : /\ j.print_id = req'.print_id
                               /\ j.user_id = req'.user_id
                               /\ j.payment_status = "SUCCESS" )
      => /\ res'.status = 409
         /\ AnsweredAtOnce
         /\ NewPayments = {}
         /\ UNCHANGED <<store, tx>>
    ]_vars

\* An initiate with payment_method GPAY on the paid job p1 has been answered
\* 409 and the job still has the one Payment that paid it.
C11_Witness ==
  /\ AllIdle
  /\ req.op = "initiate" /\ req.payment_method = "GPAY" /\ req.print_id = "p1"
  /\ res.status = 409
  /\ \E j \in printJob : j.print_id = "p1" /\ j.payment_status = "SUCCESS"
  /\ Cardinality(payment) = 1

\* ---------------------------------------------------------------------- C12
\* C12: once a verify has moved a PrintJob to SUCCESS, no initiate that
\* completes afterwards creates a Payment for that job.
C12_NoInitiateAfterSuccess ==
  [][ \A r \in NewPayments : ~EverPaid(r.print_id) ]_vars

\* ---------------------------------------------------------------------- C13
\* C13 as stated: a PrintJob whose payment_status is SUCCESS keeps it in
\* every step of initiate and verify.
C13_SuccessTerminal ==
  [][ \A j \in printJob : j.payment_status = "SUCCESS"
        => \A k \in printJob' : k.print_id = j.print_id => k.payment_status = "SUCCESS"
    ]_vars

\* This step commits a verify with the given outcome on a Payment of the job.
VerifyCommitted(print_id, status) ==
  /\ Len(verifyLog') = Len(verifyLog) + 1
  /\ verifyLog'[Len(verifyLog')].print_id = print_id
  /\ verifyLog'[Len(verifyLog')].payment_status = status

\* C13: a PrintJob's payment_status never returns to PENDING, and once it is
\* SUCCESS it changes only to FAILED and only in the commit of a verify with
\* outcome FAILED on a Payment of that job; no initiate changes it.
C13_SuccessLeftOnlyByFailedVerify ==
  [][ \A j \in printJob : \A k \in printJob' : k.print_id = j.print_id =>
        /\ (j.payment_status # "PENDING" => k.payment_status # "PENDING")
        /\ (j.payment_status = "SUCCESS" /\ k.payment_status # "SUCCESS"
              => k.payment_status = "FAILED" /\ VerifyCommitted(j.print_id, "FAILED"))
    ]_vars

\* Job p1 was moved to SUCCESS by one verify and then to FAILED by the next.
C13_Witness ==
  /\ Len(verifyLog) = 2
  /\ verifyLog[1].print_id = "p1" /\ verifyLog[1].payment_status = "SUCCESS"
  /\ verifyLog[2].print_id = "p1" /\ verifyLog[2].payment_status = "FAILED"
  /\ \E j \in printJob : j.print_id = "p1" /\ j.payment_status = "FAILED"

\* ---------------------------------------------------------------------- C14
\* C14: in every reachable state each PrintJob has at most one Payment whose
\* payment_status is SUCCESS.
C14_AtMostOneSuccessPayment ==
  \A j \in printJob :
    Cardinality({r \in payment : r.print_id = j.print_id /\ r.payment_status = "SUCCESS"}) <= 1

\* ---------------------------------------------------------------------- C15
\* This step commits a verify; Committed is the call it commits.
Commits == Len(verifyLog') = Len(verifyLog) + 1
Committed == verifyLog'[Len(verifyLog')]

\* The rows that were in the Payment table before this step, as they are
\* after it.
OldPayments == {r \in payment' : \E q \in payment : q.payment_id = r.payment_id}

\* C15: the step in which verify(payment_id, tx, outcome) succeeds sets that
\* Payment's transaction_id to tx and its payment_status and the PrintJob's
\* payment_status to outcome, with paid_at non-null for SUCCESS and null for
\* FAILED, and answers 200; no other step changes an existing Payment or a
\* PrintJob, so the two updates are seen together or not at all (a verify
\* answered 500 leaves both as they were).
C15_VerifyUpdatesBothAtOnce ==
  [][ /\ Commits =>
           /\ res'.status = 200
           /\ \E r \in payment' :
                /\ r.payment_id = Committed.payment_id
                /\ r.print_id = Committed.print_id
                /\ r.transaction_id = Committed.transaction_id
                /\ r.payment_status = Committed.payment_status
                /\ (Committed.payment_status = "SUCCESS" => r.paid_at # NULL)
                /\ (Committed.payment_status = "FAILED" => r.paid_at = NULL)
                /\ res'.payment = r
           /\ \A j \in printJob' :
                j.print_id = Committed.print_id => j.payment_status = Committed.payment_status
           /\ \E p \in Procs :
                /\ pc[p] = "verify_updateJob" /\ pc'[p] = "idle"
                /\ Committed.payment_id = args[p].payment_id
                /\ Committed.transaction_id = args[p].transaction_id
                /\ Committed.payment_status = args[p].payment_status
      /\ ~Commits => OldPayments = payment /\ printJob' = printJob
    ]_vars

\* A verify with outcome SUCCESS has committed after the clock moved: the
\* Payment and its PrintJob are both SUCCESS and paid_at is the later time.
C15_Witness ==
  /\ AllIdle
  /\ Len(verifyLog) = 1 /\ verifyLog[1].payment_status = "SUCCESS"
  /\ res.status = 200 /\ res.payment.paid_at > 1
  /\ \E r \in payment : r.payment_status = "SUCCESS" /\ r.transaction_id = "t2"
  /\ \E j \in printJob : j.print_id = "p1" /\ j.payment_status = "SUCCESS"

\* ---------------------------------------------------------------------- C16
\* C16: initiate on a PrintJob the requester does not own and verify on a
\* Payment the requester does not own are answered Forbidden (403) at once,
\* whatever the requester's role, and change no Payment and no PrintJob.
C16_NotOwnerForbidden ==
  [][ /\ ( /\ PayHandled("initiate")
           /\ initiateSchema(req'.print_id, req'.payment_method)
           /\ \E j \in printJob : j.print_id = req'.print_id /\ j.user_id # req'.user_id )
         => (res'.status = 403 /\ AnsweredAtOnce /\ UNCHANGED <<store, tx>>)
      /\ ( /\ PayHandled("verify")
           /\ verifySchema(req'.payment_id, req'.transaction_id, req'.payment_status)
           /\ \E r \in payment : r.payment_id = req'.payment_id /\ r.user_id # req'.user_id )
         => (res'.status = 403 /\ AnsweredAtOnce /\ UNCHANGED <<store, tx>>)
    ]_vars

\* A SUPER_ADMIN who does not own Payment 1 has asked to verify it as SUCCESS
\* and was answered 403; the Payment is still PENDING.
C16_Witness ==
  /\ AllIdle
  /\ req.op = "verify" /\ req.cred = "SUPER_ADMIN" /\ req.user_id = "u2"
  /\ res.status = 403
  /\ \E r \in payment : r.payment_id = req.payment_id /\ r.user_id = "u1"
                        /\ r.payment_status = "PENDING"
  /\ verifyLog = <<>>

\* ---------------------------------------------------------------------- C17
\* This step ends the handler of POST /initiate of request p with a create.
Initiated(p) == pc[p] = "initiate_create" /\ pc'[p] = "idle"

\* C17: the step in which an initiate succeeds (201) adds exactly one Payment,
\* with payment_status PENDING, transaction_id and paid_at null, owned by the
\* requester and referencing the request's print_id, under a payment_id no
\* Payment had; it changes no PrintJob and no existing Payment.  No other step
\* adds a Payment.
C17_InitiateCreatesOnePending ==
  [][ /\ \A p \in Procs : Initiated(p) =>
           /\ res'.status = 201
           /\ \E r \in payment' :
                /\ NewPayments = {r}
                /\ payment' = payment \cup {r}
                /\ r.payment_status = "PENDING"
                /\ r.transaction_id = ""
                /\ r.paid_at = NULL
                /\ r.user_id = args[p].user_id
                /\ r.print_id = args[p].print_id
                /\ r.payment_method = args[p].payment_method
                /\ res'.payment = r
           /\ printJob' = printJob
      /\ NewPayments # {} => \E p \in Procs : Initiated(p)
    ]_vars

\* A second initiate on job p1 has been answered 201 with Payment 2 while
\* Payment 1, already verified FAILED, is as it was.
C17_Witness ==
  /\ AllIdle
  /\ req.op = "initiate" /\ res.status = 201 /\ res.payment.payment_id = 2
  /\ res.payment \in payment
  /\ \E r \in payment : r.payment_id = 1 /\ r.payment_status = "FAILED"
  /\ Cardinality(payment) = 2

\* ---------------------------------------------------------------------- C18
\* C18: in every reachable state a Payment's paid_at is non-null iff its
\* payment_status is SUCCESS.
C18_PaidAtIffSuccess ==
  \A r \in payment : (r.paid_at # NULL) <=> (r.payment_status = "SUCCESS")

\* Payment 1 of job p1 was verified SUCCESS after the clock moved and has a
\* paid_at; Payment 2 was verified FAILED and has none.
C18_Witness ==
  /\ \E r \in payment : r.payment_id = 1 /\ r.payment_status = "SUCCESS" /\ r.paid_at > 1
  /\ \E r \in payment : r.payment_id = 2 /\ r.payment_status = "FAILED" /\ r.paid_at = NULL
  /\ Len(verifyLog) = 2

\* ---------------------------------------------------------------------- C19
\* The committed verify calls on the given Payment, by position in the log.
VerifiesOf(payment_id) == {k \in 1..Len(verifyLog) : verifyLog[k].payment_id = payment_id}

\* The last element of a non-empty set of positions.
Last(ks) == CHOOSE k \in ks : \A l \in ks : l <= k

\* After the verify calls committed so far, each verified Payment has the
\* transaction_id and payment_status of the last call on it, and its PrintJob
\* has that call's payment_status unless a verify on another Payment of the
\* job committed later.
ReplacedByLast ==
  \A r \in payment : VerifiesOf(r.payment_id) # {} =>
    LET last == Last(VerifiesOf(r.payment_id)) IN
      /\ r.transaction_id = verifyLog[last].transaction_id
      /\ r.payment_status = verifyLog[last].payment_status
      /\ (\A k \in 1..Len(verifyLog) :
             k > last => verifyLog[k].print_id # r.print_id)
         => \A j \in printJob :
              j.print_id = r.print_id => j.payment_status = verifyLog[last].payment_status

\* This step commits a verify whose arguments are those of the verify that
\* committed just before it.
Repeats ==
  /\ Commits
  /\ verifyLog # <<>>
  /\ verifyLog[Len(verifyLog)].payment_id = Committed.payment_id
  /\ verifyLog[Len(verifyLog)].transaction_id = Committed.transaction_id
  /\ verifyLog[Len(verifyLog)].payment_status = Committed.payment_status

\* C19: verify replaces: after any sequence of successful verify calls on one
\* Payment, its transaction_id and payment_status and its PrintJob's
\* payment_status are the arguments of the last call, whatever the earlier
\* calls set; a verify that repeats the call before it leaves every
\* payment_status and transaction_id as they were.
C19_VerifyReplaces ==
  [][ /\ ReplacedByLast'
      /\ Repeats =>
           /\ printJob' = printJob
           /\ \A r \in payment : \E q \in payment' :
                /\ q.payment_id = r.payment_id
                /\ q.transaction_id = r.transaction_id
                /\ q.payment_status = r.payment_status
    ]_vars

\* Payment 1 was verified SUCCESS with t1, then FAILED with t2, then FAILED
\* with t2 again: it and its job are FAILED and transaction_id is t2.
C19_Witness ==
  /\ AllIdle
  /\ Len(verifyLog) = 3
  /\ \A k \in 1..3 : verifyLog[k].payment_id = 1
  /\ verifyLog[1].payment_status = "SUCCESS" /\ verifyLog[1].transaction_id = "t1"
  /\ verifyLog[2].payment_status = "FAILED" /\ verifyLog[2].transaction_id = "t2"
  /\ verifyLog[3].payment_status = "FAILED" /\ verifyLog[3].transaction_id = "t2"
  /\ \E r \in payment : r.payment_id = 1 /\ r.payment_status = "FAILED"
                        /\ r.transaction_id = "t2"
  /\ \E j \in printJob : j.print_id = "p1" /\ j.payment_status = "FAILED"

\* ---------------------------------------------------------------------- C20
\* C20: when two verify calls on one Payment with different outcomes ran
\* concurrently and both committed, the Payment's payment_status and paid_at
\* and the PrintJob's payment_status are all those of the call that committed
\* last: none of them is left from the call that committed first.
C20_LastCommitWins ==
  LET n == Len(verifyLog) IN
    ( /\ n >= 2
      /\ verifyLog[n - 1].rival
      /\ verifyLog[n].payment_id = verifyLog[n - 1].payment_id
      /\ verifyLog[n].payment_status # verifyLog[n - 1].payment_status )
    => /\ \A r \in payment : r.payment_id = verifyLog[n].payment_id =>
            /\ r.payment_status = verifyLog[n].payment_status
            /\ (r.paid_at # NULL) <=> (verifyLog[n].payment_status = "SUCCESS")
       /\ \A j \in printJob : j.print_id = verifyLog[n].print_id =>
            j.payment_status = verifyLog[n].payment_status

\* Two verifies on Payment 1 were in flight together, the first to commit
\* said SUCCESS and the second FAILED: the Payment and the job are FAILED and
\* paid_at is null.
C20_Witness ==
  /\ AllIdle
  /\ reqCount = 3
  /\ Len(verifyLog) = 2
  /\ verifyLog[1].rival
  /\ verifyLog[1].payment_id = 1 /\ verifyLog[2].payment_id = 1
  /\ verifyLog[1].payment_status = "SUCCESS" /\ verifyLog[2].payment_status = "FAILED"
  /\ \E r \in payment : r.payment_id = 1 /\ r.payment_status = "FAILED" /\ r.paid_at = NULL
  /\ \E j \in printJob : j.print_id = "p1" /\ j.payment_status = "FAILED"

(***************************************************************************)
(* Print jobs and payment status (routes/print.ts and GET /status/:id of    *)
(* routes/payment.ts, kept in src/src/config.ts).  POST /upload creates the *)
(* PrintJob in one awaited call; GET /status/:id reads one Payment with its *)
(* PrintJob.                                                                *)
(***************************************************************************)
\* ------------------------------------------------------------- input sets
PrintIdSeq == <<"p1", "p2", "p3", "p4", "p5", "p6", "p7", "p8">>  \* print_id values handed out
NoCost == -1                       \* cost_per_page absent from the form
DEFAULT_COST_PER_PAGE == 2
PageCounts == {0, 10}              \* total_pages values a caller may send
PageCosts == {NoCost, 0, 3}        \* cost_per_page values a caller may send

\* ---------------------------------------------------------------- records
\* The 201 response of POST /upload.
ReplyJob(code, job) == [status |-> code, print_job |-> job]

\* The 200 response of GET /status/:id.
ReplyStatus(code, pay, job) ==
  [status |-> code, payment |-> pay,
   print_job |-> [total_cost |-> job.total_cost, payment_status |-> job.payment_status]]

\* ------------------------------------------------------- body validation
\* uploadSchema: total_pages is a whole number >= 1; cost_per_page is a whole
\* number >= 1 or absent.
uploadSchema(total_pages, cost_per_page) ==
  total_pages >= 1 /\ (cost_per_page = NoCost \/ cost_per_page >= 1)

\* .default(2) of uploadSchema.cost_per_page.
CostOrDefault(cost_per_page) ==
  IF cost_per_page = NoCost THEN DEFAULT_COST_PER_PAGE ELSE cost_per_page

\* ----------------------------------------------------------- store writes
NewJob_UnitCost(uid, total_pages, cost_per_page) ==
  [print_id |-> PrintIdSeq[Cardinality(printJob) + 1], user_id |-> uid,
   total_pages |-> total_pages, cost_per_page |-> cost_per_page,
   total_cost |-> total_pages, payment_status |-> "PENDING"]

\* The row prisma.printJob.create stores, with totalCost computed before it.
NewJob(uid, total_pages, cost_per_page) ==
  [print_id |-> PrintIdSeq[Cardinality(printJob) + 1], user_id |-> uid,
   total_pages |-> total_pages, cost_per_page |-> cost_per_page,
   total_cost |-> total_pages * cost_per_page, payment_status |-> "PENDING"]

\* ------------------------------------------------------------ store reads
StatusCheck_OwnerOnly(cred, uid, payment_id) ==
  IF FindPayment(payment_id) = {} THEN 404
  ELSE LET pay == CHOOSE r \in FindPayment(payment_id) : TRUE IN
       IF pay.user_id # uid THEN 403 ELSE 0

\* The checks of GET /status/:id on the payment it read: 0 when all pass.
StatusCheck(cred, uid, payment_id) ==
  IF FindPayment(payment_id) = {} THEN 404
  ELSE LET pay == CHOOSE r \in FindPayment(payment_id) : TRUE
           isOwner == pay.user_id = uid
           isAdmin == cred = "LIBRARY_ADMIN" \/ cred = "SUPER_ADMIN"
       IN IF ~isOwner /\ ~isAdmin THEN 403 ELSE 0

\* ------------------------------------------------------------------- Init
\* The store after construction with two registered users: no print job
\* and no payment yet.
InitPrint ==
  /\ book = [b \in BookIds |-> "AVAILABLE"]
  /\ user = PayUsers
  /\ bookIssue = {}
  /\ printJob = {}
  /\ payment = {}
  /\ issueSeq = 0
  /\ now = 1
  /\ req = NoPayReq
  /\ pc = [p \in Procs |-> "idle"]
  /\ args = [p \in Procs |-> NoPayArgs]
  /\ issue = [p \in Procs |-> NoIssue]
  /\ tx = [p \in Procs |-> <<>>]
  /\ res = NoPayRes
  /\ reqCount = 0
  /\ chain = NoChain
  /\ verifyLog = <<>>

\* ---------------------------------------------------------- POST /upload
\* requireAuth, upload.single('file'), uploadSchema.safeParse, the check of
\* req.file, prisma.printJob.create and the 201 response.
UploadRequest(p, cred, uid, total_pages, cost_per_page, hasFile) ==
  /\ Accept(p, [op |-> "upload", cred |-> cred, user_id |-> uid, print_id |-> "",
                payment_method |-> "", payment_id |-> 0, transaction_id |-> "",
                payment_status |-> "", total_pages |-> total_pages,
                cost_per_page |-> cost_per_page, hasFile |-> hasFile])
  /\ IF ~requireAuth(cred) THEN
       PayDone(p, PayReply(401)) /\ UNCHANGED printJob
     ELSE IF ~uploadSchema(total_pages, cost_per_page) THEN
       PayDone(p, PayReply(400)) /\ UNCHANGED printJob
     ELSE IF ~hasFile THEN
       PayDone(p, PayReply(400)) /\ UNCHANGED printJob
     ELSE
       /\ Cardinality(printJob) < Len(PrintIdSeq)
       /\ LET job == NewJob(uid, total_pages, CostOrDefault(cost_per_page)) IN
            /\ printJob' = printJob \cup {job}
            /\ PayDone(p, ReplyJob(201, job))
  /\ UNCHANGED <<book, user, bookIssue, payment, issueSeq, now, issue, tx, chain, verifyLog>>

\* ------------------------------------------------------- GET /status/:id
\* requireAuth, prisma.payment.findUnique with its print job, the owner or
\* admin check and the response.
StatusRequest(p, cred, uid, payment_id) ==
  /\ Accept(p, [op |-> "status", cred |-> cred, user_id |-> uid, print_id |-> "",
                payment_method |-> "", payment_id |-> payment_id,
                transaction_id |-> "", payment_status |-> ""])
  /\ IF ~requireAuth(cred) THEN PayDone(p, PayReply(401))
     ELSE IF StatusCheck(cred, uid, payment_id) # 0
     THEN PayDone(p, PayReply(StatusCheck(cred, uid, payment_id)))
     ELSE LET pay == CHOOSE r \in FindPayment(payment_id) : TRUE
              job == CHOOSE j \in FindJob(pay.print_id) : TRUE
          IN PayDone(p, ReplyStatus(200, pay, job))
  /\ UNCHANGED <<store, issueSeq, now, issue, tx, chain, verifyLog>>

\* ------------------------------------------------------------------- Next
UploadForms == PageCounts \X PageCosts \X BOOLEAN

NextPrint ==
  \/ \E p \in Procs, cred \in {"USER", NoCred} : UploadRequest(p, cred, "u1", 10, NoCost, TRUE)
  \/ \E p \in Procs, f \in UploadForms : UploadRequest(p, "USER", "u1", f[1], f[2], f[3])
  \/ \E p \in Procs, m \in {"UPI", NoMethod}, id \in {"p1", "p2"} :
       InitiateRequest(p, "USER", "u1", id, m)
  \/ \E p \in Procs : InitiateCreate(p)
  \/ \E p \in Procs, id \in {1, 2}, o \in PAYMENT_OUTCOMES :
       VerifyRequest(p, "USER", "u1", id, "t1", o)
  \/ \E p \in Procs : VerifyUpdatePayment(p)
  \/ \E p \in Procs : VerifyUpdateJob(p)
  \/ \E p \in Procs : VerifyTxFail(p)
  \/ \E p \in Procs, cred \in Creds, uid \in PayUsers, id \in {1, 2} :
       StatusRequest(p, cred, uid, id)
  \/ Tick

SpecPrint == InitPrint /\ [][NextPrint]_vars

\* ---------------------------------------------------------------------- C21
\* C21: getPaymentStatus on an existing Payment answers 200 exactly when the
\* requester owns the Payment or has role LIBRARY_ADMIN or SUPER_ADMIN, and
\* 403 to a USER who is not the owner; whatever the answer (also 404 for a
\* payment_id no Payment has), no Payment and no PrintJob is changed.
C21_StatusOwnerOrAdmin ==
  [][ PayHandled("status")
      => /\ AnsweredAtOnce
         /\ UNCHANGED <<store, tx>>
         /\ \A r \in payment : r.payment_id = req'.payment_id =>
              /\ (res'.status = 200)
                   <=> (r.user_id = req'.user_id
                        \/ req'.cred \in {"LIBRARY_ADMIN", "SUPER_ADMIN"})
              /\ (req'.cred = "USER" /\ r.user_id # req'.user_id => res'.status = 403)
              /\ (res'.status = 200 =>
                    /\ res'.payment = r
                    /\ \E j \in printJob :
                         /\ j.print_id = r.print_id
                         /\ res'.print_job.total_cost = j.total_cost
                         /\ res'.print_job.payment_status = j.payment_status)
    ]_vars

\* A LIBRARY_ADMIN who does not own Payment 1 has read its status after it
\* was verified SUCCESS.
C21_Witness ==
  /\ AllIdle
  /\ req.op = "status" /\ req.cred = "LIBRARY_ADMIN" /\ req.user_id = "u2"
  /\ res.status = 200 /\ {"payment", "print_job"} \subseteq DOMAIN res
  /\ res.payment.user_id = "u1" /\ res.payment.payment_status = "SUCCESS"
  /\ res.print_job.payment_status = "SUCCESS"
  /\ res.payment \in payment

(***************************************************************************)
(* Access gate of the book routes (requireAuth, requireRole) with           *)
(* DELETE /:id of routes/books.ts, the one route whose allowed set is       *)
(* SUPER_ADMIN alone.                                                       *)
(***************************************************************************)
DeleteRoles == {"SUPER_ADMIN"}

\* The table without the book.
WithoutBook(b) == [c \in DOMAIN book \ {b} |-> book[c]]

\* DELETE /:id: the middleware, prisma.book.delete and the 204 response.  A
\* delete of a book no row has throws and the error handler answers 500.  For
\* a book that BookIssue rows refer to, the store either refuses the delete
\* (500) or deletes those rows with it.
DeleteRequest(p, cred, b) ==
  /\ Accept(p, [op |-> "delete", cred |-> cred, book_id |-> b, user_id |-> "",
                issue_id |-> NULL])
  /\ LET g == Gate(DeleteRoles, cred) IN
       IF g # 0 THEN
         Reject(p, g) /\ UNCHANGED <<book, bookIssue>>
       ELSE IF b \notin DOMAIN book THEN
         Reject(p, 500) /\ UNCHANGED <<book, bookIssue>>
       ELSE IF \E i \in bookIssue : i.book_id = b THEN
         \/ Reject(p, 500) /\ UNCHANGED <<book, bookIssue>>
         \/ /\ book' = WithoutBook(b)
            /\ bookIssue' = {i \in bookIssue : i.book_id # b}
            /\ Done(p, Reply(204))
       ELSE
         /\ book' = WithoutBook(b)
         /\ UNCHANGED bookIssue
         /\ Done(p, Reply(204))
  /\ chain' = NoChain
  /\ UNCHANGED <<user, printJob, payment, issueSeq, now, tx, verifyLog>>

NextGate ==
  \/ \E p \in Procs, cred \in Creds, d \in DueDates : IssueRequest(p, cred, "b1", "u1", d)
  \/ \E p \in Procs : IssueFindUser(p)
  \/ \E p \in Procs : IssueCreate(p)
  \/ \E p \in Procs : IssueUpdate(p)
  \/ \E p \in Procs, cred \in Creds : ReturnRequest(p, cred, NULL, "b1")
  \/ \E p \in Procs : ReturnUpdateIssue(p)
  \/ \E p \in Procs : ReturnUpdateBook(p)
  \/ \E p \in Procs, cred \in Creds : ListIssued(p, cred)
  \/ \E p \in Procs, cred \in Creds, b \in {"b2", MissingBook} : DeleteRequest(p, cred, b)
  \/ \E p \in Procs : TxFail(p)
  \/ Tick

SpecGate == Init /\ [][NextGate]_vars

\* ---------------------------------------------------------------------- C22
\* The roles each guarded operation enumerates.
AllowedRoles(op) ==
  IF op = "delete" THEN {"SUPER_ADMIN"} ELSE {"LIBRARY_ADMIN", "SUPER_ADMIN"}

\* This step accepts a request.
Accepts == reqCount' = reqCount + 1

\* C22: a request without a valid credential is answered 401 whatever it
\* asks for (the role check is not reached), a request whose role is not
\* allowed is answered 403, both at once, with an empty response and with no
\* change of the store; a request that enters its handler, gets any other
\* answer or changes the store has passed the gate.
C22_GateBeforeOperation ==
  [][ Accepts
      => /\ req'.cred = NoCred
              => (res' = Reply(401) /\ AnsweredAtOnce /\ UNCHANGED <<store, tx>>)
         /\ (req'.cred # NoCred /\ req'.cred \notin AllowedRoles(req'.op))
              => (res' = Reply(403) /\ AnsweredAtOnce /\ UNCHANGED <<store, tx>>)
         /\ (~AnsweredAtOnce \/ store' # store \/ res'.status \notin {401, 403})
              => (req'.cred # NoCred /\ req'.cred \in AllowedRoles(req'.op))
    ]_vars

\* With book b1 issued, a request without a credential asked to delete the
\* existing book b2 and was answered 401; b2 is still in the catalog.
C22_Witness ==
  /\ AllIdle
  /\ req.op = "delete" /\ req.cred = NoCred /\ req.book_id = "b2"
  /\ res.status = 401
  /\ "b2" \in DOMAIN book
  /\ book["b1"] = "ISSUED"

\* ---------------------------------------------------------------------- C23
\* The request accepted in this step was let through by its gate.
Admitted == ~AnsweredAtOnce \/ res'.status \notin {401, 403}

\* C23: a request with a credential is admitted iff its role is in the
\* operation's enumerated set: issueBook, returnBook and listIssued admit
\* LIBRARY_ADMIN and SUPER_ADMIN and answer 403 to USER; book deletion admits
\* SUPER_ADMIN and answers 403 to LIBRARY_ADMIN and USER.
C23_RolesAreEnumerated ==
  [][ (Accepts /\ req'.cred # NoCred)
      => /\ req'.op \in {"issue", "return", "list"}
              => /\ Admitted <=> req'.cred \in {"LIBRARY_ADMIN", "SUPER_ADMIN"}
                 /\ req'.cred = "USER" => res'.status = 403
         /\ req'.op = "delete"
              => /\ Admitted <=> req'.cred = "SUPER_ADMIN"
                 /\ req'.cred \in {"LIBRARY_ADMIN", "USER"} => res'.status = 403
    ]_vars

\* After a LIBRARY_ADMIN issued book b1, a LIBRARY_ADMIN asked to delete book
\* b2 and was answered 403; b2 is still in the catalog.
C23_Witness ==
  /\ AllIdle
  /\ req.op = "delete" /\ req.cred = "LIBRARY_ADMIN" /\ req.book_id = "b2"
  /\ res.status = 403
  /\ "b2" \in DOMAIN book
  /\ \E i \in bookIssue : i.book_id = "b1"

(***************************************************************************)
(* The circulation and the payment routes served by one application         *)
(* (createApp mounts both routers): requests of both kinds share the slots  *)
(* and the store.                                                           *)
(***************************************************************************)
NextAll ==
  \/ \E p \in Procs, cred \in Creds, d \in DueDates : IssueRequest(p, cred, "b1", "u1", d)
  \/ \E p \in Procs, body \in {<<MissingBook, "u1">>, <<"", "u1">>, <<"b1", MissingUser>>},
        d \in DueDates : IssueRequest(p, "LIBRARY_ADMIN", body[1], body[2], d)
  \/ \E p \in Procs : IssueFindUser(p)
  \/ \E p \in Procs : IssueCreate(p)
  \/ \E p \in Procs : IssueUpdate(p)
  \/ \E p \in Procs, b \in {"b1", ""} : ReturnRequest(p, "SUPER_ADMIN", NULL, b)
  \/ \E p \in Procs : ReturnUpdateIssue(p)
  \/ \E p \in Procs : ReturnUpdateBook(p)
  \/ \E p \in Procs : TxFail(p)
  \/ \E p \in Procs, cred \in {"USER", NoCred}, id \in PrintIds \cup {MissingPrint},
        m \in {"UPI", "CARD"} : InitiateRequest(p, cred, "u1", id, m)
  \/ \E p \in Procs : InitiateCreate(p)
  \/ \E p \in Procs, uid \in PayUsers, id \in {1, 3}, o \in PAYMENT_OUTCOMES :
       VerifyRequest(p, "USER", uid, id, "t1", o)
  \/ \E p \in Procs : VerifyUpdatePayment(p)
  \/ \E p \in Procs : VerifyUpdateJob(p)
  \/ \E p \in Procs : VerifyTxFail(p)
  \/ Tick

SpecAll == InitPay /\ [][NextAll]_vars

\* ---------------------------------------------------------------------- C24
\* This step sends the response of a request: one answered as it is
\* accepted, or one whose handler ends.
RequestEnds ==
  \/ Accepts /\ AnsweredAtOnce
  \/ \E p \in Procs : pc[p] # "idle" /\ pc'[p] = "idle"

\* C24: a step that ends a circulation or payment request with an error
\* (400, 401, 403, 404, 409, or 500 after a failure inside its transaction)
\* leaves Book, BookIssue, PrintJob and Payment unchanged, and no earlier step
\* of the request has changed them: the tables change only in the step that
\* ends a request with 200 or 201.
C24_ErrorsChangeNothing ==
  [][ /\ (RequestEnds /\ res'.status >= 400) => UNCHANGED store
      /\ store' # store => (RequestEnds /\ res'.status \in {200, 201})
    ]_vars

\* A verify of Payment 1 failed inside its transaction and was answered 500
\* while book b1 was being issued: the Payment is still PENDING without a
\* transaction_id, its job is PENDING and b1 is AVAILABLE.
C24_Witness ==
  /\ req.op = "verify" /\ res.status = 500
  /\ \E p \in Procs : pc[p] = "issue_update"
  /\ payment # {}
  /\ \A r \in payment : r.payment_status = "PENDING" /\ r.transaction_id = ""
  /\ \A j \in printJob : j.payment_status = "PENDING"
  /\ book["b1"] = "AVAILABLE"
  /\ verifyLog = <<>>

\* ---------------------------------------------------------------------- C25
\* The PrintJobs created in this step.
NewJobs == {j \in printJob' : \A k \in printJob : k.print_id # j.print_id}

\* C25: a PrintJob is created, by a successful upload only, with total_cost =
\* total_pages * cost_per_page and payment_status PENDING, owned by the
\* uploader; in every step each existing PrintJob keeps its total_pages,
\* cost_per_page, total_cost and owner, so payment_status is the only field
\* a later operation changes.
C25_JobImmutableButStatus ==
  [][ /\ \A j \in NewJobs :
           /\ j.total_cost = j.total_pages * j.cost_per_page
           /\ j.payment_status = "PENDING"
           /\ Accepts /\ req'.op = "upload" /\ res'.status = 201
           /\ j.user_id = req'.user_id
           /\ j.total_pages = req'.total_pages
           /\ j.cost_per_page = (IF req'.cost_per_page = NoCost THEN 2
                                 ELSE req'.cost_per_page)
           /\ NewJobs = {j}
           /\ res'.print_job = j
      /\ \A k \in printJob : \A j \in printJob' : j.print_id = k.print_id =>
           /\ j.user_id = k.user_id
           /\ j.total_pages = k.total_pages
           /\ j.cost_per_page = k.cost_per_page
           /\ j.total_cost = k.total_cost
    ]_vars

\* A job uploaded with 10 pages at 3 a page costs 30 and, after an initiate
\* and a verify, is SUCCESS with its other fields as created.
C25_Witness ==
  /\ AllIdle
  /\ \E j \in printJob :
       /\ j.total_pages = 10 /\ j.cost_per_page = 3 /\ j.total_cost = 30
       /\ j.user_id = "u1" /\ j.payment_status = "SUCCESS"
  /\ verifyLog # <<>>

\* ---------------------------------------------------------------------- C26
\* The whole number written by a sequence of digit characters.
RECURSIVE ParseDigits(_)
ParseDigits(cs) ==
  IF cs = <<>> THEN 0
  ELSE 10 * ParseDigits(SubSeq(cs, 1, Len(cs) - 1))
       + (CHOOSE d \in 0..9 : DigitChar(d) = cs[Len(cs)])

\* C26: the URI a successful initiate returns is fixed by the payee
\* identifier, the payee name, the PrintJob's total_cost, the print_id and the
\* new payment_id: its amount is total_cost in decimal digits followed by a
\* point and exactly two decimals (20 gives "20.00"), its currency is INR,
\* its reference is the new payment_id and its note names the print_id.
C26_UriIsFunctionOfInputs ==
  [][ \A p \in Procs : Initiated(p) =>
        \E r \in NewPayments : \E j \in printJob :
          /\ j.print_id = r.print_id
          /\ LET u == res'.upi_uri
                 n == Len(u.am)
             IN /\ DOMAIN u = {"pa", "pn", "am", "cu", "tn", "tr"}
                /\ u.pa = "library@upi"
                /\ u.pn = "E-Library"
                /\ u.cu = "INR"
                /\ u.tr = r.payment_id
                /\ u.tn = <<"Print job ", r.print_id>>
                /\ n >= 4
                /\ SubSeq(u.am, n - 2, n) = <<".", "0", "0">>
                /\ \A k \in 1..(n - 3) : \E d \in 0..9 : u.am[k] = DigitChar(d)
                /\ ParseDigits(SubSeq(u.am, 1, n - 3)) = j.total_cost
                /\ (n > 4 => u.am[1] # "0")
                /\ (j.total_cost = 20 => u.am = <<"2", "0", ".", "0", "0">>)
    ]_vars

\* An initiate on a job of total_cost 20 has returned a URI whose amount is
\* "20.00" and whose reference is the new Payment 1.
C26_Witness ==
  /\ AllIdle
  /\ req.op = "initiate" /\ res.status = 201 /\ "upi_uri" \in DOMAIN res
  /\ res.upi_uri.am = <<"2", "0", ".", "0", "0">>
  /\ res.upi_uri.tr = 1 /\ res.upi_uri.cu = "INR"
  /\ \E j \in printJob : j.print_id = res.payment.print_id /\ j.total_cost = 20

\* ---------------------------------------------------------------------- C27
\* C27: an initiate by the owner of a PrintJob whose payment_status is
\* PENDING or FAILED is let into its handler whatever Payments the job has;
\* the handler ends with 201 and a new PENDING Payment for the job; and the
\* commit of a verify with outcome SUCCESS moves the job to SUCCESS.
C27_RetryAfterFailed ==
  [][ /\ ( /\ PayHandled("initiate")
           /\ initiateSchema(req'.print_id, req'.payment_method)
           /\ \E j \in printJob : /\ j.print_id = req'.print_id
                                  /\ j.user_id = req'.user_id
                                  /\ j.payment_status \in {"PENDING", "FAILED"} )
         => \E p \in Procs : /\ pc[p] = "idle" /\ pc'[p] = "initiate_create"
                             /\ args'[p].print_id = req'.print_id
      /\ \A p \in Procs : Initiated(p) =>
           /\ res'.status = 201
           /\ \E r \in NewPayments :
                r.print_id = args[p].print_id /\ r.payment_status = "PENDING"
      /\ (Commits /\ Committed.payment_status = "SUCCESS")
         => \A j \in printJob' :
              j.print_id = Committed.print_id => j.payment_status = "SUCCESS"
    ]_vars

\* Payment 1 of job p1 was verified FAILED, a further initiate created
\* Payment 2, and the verify of Payment 2 as SUCCESS moved the job to SUCCESS.
C27_Witness ==
  /\ AllIdle
  /\ Len(verifyLog) = 2
  /\ verifyLog[1].payment_id = 1 /\ verifyLog[1].payment_status = "FAILED"
  /\ verifyLog[2].payment_id = 2 /\ verifyLog[2].payment_status = "SUCCESS"
  /\ \E r \in payment : r.payment_id = 1 /\ r.print_id = "p1" /\ r.payment_status = "FAILED"
  /\ \E r \in payment : r.payment_id = 2 /\ r.print_id = "p1" /\ r.payment_status = "SUCCESS"
  /\ \E j \in printJob : j.print_id = "p1" /\ j.payment_status = "SUCCESS"

\* ---------------------------------------------------------------------- C28
\* C28: in every reachable state a PrintJob one of whose Payments has
\* payment_status SUCCESS has payment_status SUCCESS itself.
C28_PaidPaymentMeansPaidJob ==
  \A r \in payment : r.payment_status = "SUCCESS"
    => \A j \in printJob : j.print_id = r.print_id => j.payment_status = "SUCCESS"

\* ---------------------------------------------------------------------- C29
\* This step commits the return of request p and answers 200.
ReturnCommits(p) == pc[p] = "return_updateBook" /\ pc'[p] = "idle" /\ res'.status = 200

\* C29: of the returnBook requests that matched one open BookIssue only one
\* closes it: a return that commits closes an issue that was open until then;
\* and the book a return sets to AVAILABLE has no open issue afterwards.
C29_OneReturnClosesIssue ==
  [][ \A p \in Procs : ReturnCommits(p) =>
        /\ \E i \in bookIssue : i.issue_id = issue[p].issue_id /\ i.returned_date = NULL
        /\ \A i \in bookIssue' : i.book_id = issue[p].book_id => i.returned_date # NULL
    ]_vars

\* ---------------------------------------------------------------------- C30
\* C30: no step removes a BookIssue, and a BookIssue whose returned_date is
\* non-null stays exactly as it is in every later step.
C30_ClosedAtMostOnce ==
  [][ \A i \in bookIssue :
        /\ \E j \in bookIssue' : j.issue_id = i.issue_id
        /\ i.returned_date # NULL => i \in bookIssue'
    ]_vars

(***************************************************************************)
(* Catalog administration of routes/books.ts: POST / creates a book and    *)
(* PUT /:id updates one.  Both run validateBody on the request body and    *)
(* hand the parsed data to one store call.  A body is a record of the keys *)
(* the caller sent; the Book table of this module holds the status column, *)
(* so of the data written to a row the status key is the one that shows.   *)
(***************************************************************************)
BookFields == {"book_name", "author_name", "category", "publication_year",
               "library_location"}
BOOK_STATUS == {"AVAILABLE", "ISSUED"}
NewBookIds == <<"b3", "b4", "b5", "b6", "b7", "b8">>

\* One field of createBookSchema: publication_year is a whole number >= 0,
\* every other field a non-empty string.
FieldOk(k, v) == IF k = "publication_year" THEN v >= 0 ELSE v # ""

\* createBookSchema: every field is present and well-formed.
createBookSchema(body) ==
  /\ BookFields \subseteq DOMAIN body
  /\ \A k \in BookFields : FieldOk(k, body[k])

\* updateBookSchema = createBookSchema.partial(): the fields that are present
\* are well-formed.
updateBookSchema(body) ==
  \A k \in DOMAIN body \cap BookFields : FieldOk(k, body[k])

ParsedData_Passthrough(body) == body

\* req.body = parsed.data of validateBody: a z.object keeps the keys of its
\* shape and drops every other key of the body.
ParsedData(body) == [k \in DOMAIN body \cap BookFields |-> body[k]]

\* prisma.book.update({ where: { book_id }, data }): the columns named in data
\* are overwritten, the others stay.
WriteBook(b, data) ==
  [book EXCEPT ![b] = IF "status" \in DOMAIN data THEN data.status ELSE @]

\* The book id the store generates for a new row: one no row has had, as long
\* as no book is deleted.
NewBookId ==
  NewBookIds[Cardinality({k \in 1..Len(NewBookIds) : NewBookIds[k] \in DOMAIN book}) + 1]

\* prisma.book.create({ data }): a row with a new book_id; a column that data
\* does not name takes the default of the table, s for status.
WithBook(data, s) ==
  [b \in DOMAIN book \cup {NewBookId} |->
     IF b # NewBookId THEN book[b]
     ELSE IF "status" \in DOMAIN data THEN data.status ELSE s]

\* The { book } response of POST / and PUT /:id.
ReplyBook(code, b, s, data) ==
  [status |-> code, book |-> [book_id |-> b, status |-> s, data |-> data]]

\* PUT /:id: the middleware, validateBody(updateBookSchema),
\* prisma.book.update and the 200 response.  An update of a book no row has
\* throws and the error handler answers 500.
UpdateRequest(p, cred, b, body) ==
  /\ Accept(p, [op |-> "update", cred |-> cred, book_id |-> b, user_id |-> "",
                issue_id |-> NULL, body |-> body])
  /\ LET g == Gate(CirculationRoles, cred) IN
       IF g # 0 THEN
         Reject(p, g) /\ UNCHANGED book
       ELSE IF ~updateBookSchema(body) THEN
         Reject(p, 400) /\ UNCHANGED book
       ELSE IF b \notin DOMAIN book THEN
         Reject(p, 500) /\ UNCHANGED book
       ELSE
         /\ book' = WriteBook(b, ParsedData(body))
         /\ Done(p, ReplyBook(200, b, book'[b], ParsedData(body)))
  /\ chain' = NoChain
  /\ UNCHANGED <<user, bookIssue, printJob, payment, issueSeq, now, tx, verifyLog>>

\* POST /: the middleware, validateBody(createBookSchema), prisma.book.create
\* and the 201 response.
CreateRequest(p, cred, body) ==
  /\ Accept(p, [op |-> "create", cred |-> cred, book_id |-> "", user_id |-> "",
                issue_id |-> NULL, body |-> body])
  /\ LET g == Gate(CirculationRoles, cred) IN
       IF g # 0 THEN
         Reject(p, g) /\ UNCHANGED book
       ELSE IF ~createBookSchema(body) THEN
         Reject(p, 400) /\ UNCHANGED book
       ELSE
         \E s \in BOOK_STATUS :
           /\ book' = WithBook(ParsedData(body), s)
           /\ Done(p, ReplyBook(201, NewBookId, book'[NewBookId], ParsedData(body)))
  /\ chain' = NoChain
  /\ UNCHANGED <<user, bookIssue, printJob, payment, issueSeq, now, tx, verifyLog>>

\* Bodies of PUT /:id: a new name, a new name with a status, a status alone,
\* an empty name, a negative year.
UpdateBodies ==
  { [book_name |-> "n2"],
    [book_name |-> "n2", status |-> "AVAILABLE"],
    [status |-> "ISSUED"],
    [status |-> "AVAILABLE"],
    [book_name |-> ""],
    [publication_year |-> 0 - 1] }

FullBody ==
  [book_name |-> "n3", author_name |-> "a3", category |-> "c3",
   publication_year |-> 2001, library_location |-> "l3"]

\* Bodies of POST /: every field, every field with a status, a field missing.
CreateBodies ==
  { FullBody,
    [book_name |-> "n3", author_name |-> "a3", category |-> "c3",
     publication_year |-> 2001, library_location |-> "l3", status |-> "ISSUED"],
    [book_name |-> "n3"] }

NextBooks ==
  \/ \E p \in Procs, d \in DueDates : IssueRequest(p, "LIBRARY_ADMIN", "b1", "u1", d)
  \/ \E p \in Procs : IssueFindUser(p)
  \/ \E p \in Procs : IssueCreate(p)
  \/ \E p \in Procs : IssueUpdate(p)
  \/ \E p \in Procs : ReturnRequest(p, "LIBRARY_ADMIN", NULL, "b1")
  \/ \E p \in Procs : ReturnUpdateIssue(p)
  \/ \E p \in Procs : ReturnUpdateBook(p)
  \/ \E p \in Procs, cred \in {"LIBRARY_ADMIN", "USER", NoCred}, b \in {"b1", MissingBook},
        body \in UpdateBodies : UpdateRequest(p, cred, b, body)
  \/ \E p \in Procs, cred \in {"SUPER_ADMIN", "USER"}, body \in CreateBodies :
        CreateRequest(p, cred, body)
  \/ \E p \in Procs : TxFail(p)
  \/ Tick

SpecBooks == Init /\ [][NextBooks]_vars

\* ---------------------------------------------------------------------- C31
\* This step commits the transaction of an issue or of a return.
CirculationCommit ==
  \E p \in Procs :
    /\ pc[p] \in {"issue_update", "return_updateBook"}
    /\ pc'[p] = "idle"
    /\ res'.status \in {200, 201}

\* Every book of the catalog is still there with the status it had.
BooksKept == \A b \in DOMAIN book : b \in DOMAIN book' /\ book'[b] = book[b]

\* C31: the status of a book changes only in the step that commits an issue
\* or a return.  A book update writes no key but book_name, author_name,
\* category, publication_year and library_location, adds no book and leaves
\* every status and every BookIssue as it was, whatever keys the body has.  A
\* book creation leaves the books there were and every BookIssue as they were,
\* and no open BookIssue refers to the book it adds.
C31_StatusOnlyByIssueAndReturn ==
  [][ /\ (\E b \in DOMAIN book : b \in DOMAIN book' /\ book'[b] # book[b])
          => CirculationCommit
      /\ (Accepts /\ req'.op = "update")
          => /\ BooksKept
             /\ DOMAIN book' = DOMAIN book
             /\ bookIssue' = bookIssue
             /\ (res'.status = 200 => DOMAIN res'.book.data \subseteq BookFields)
      /\ (Accepts /\ req'.op = "create")
          => /\ BooksKept
             /\ bookIssue' = bookIssue
             /\ \A b \in DOMAIN book' \ DOMAIN book :
                  \A i \in bookIssue' : i.book_id = b => i.returned_date # NULL
             /\ (res'.status = 201 <=> DOMAIN book' # DOMAIN book) ]_vars

\* An admin has updated the issued book b1 with a body that names a new
\* book_name and the status AVAILABLE: the answer is 200, the data written is
\* the name alone, and b1 is still ISSUED with its open BookIssue.
C31_Witness ==
  /\ AllIdle
  /\ req.op = "update" /\ req.book_id = "b1"
  /\ req.body = [book_name |-> "n2", status |-> "AVAILABLE"]
  /\ "book" \in DOMAIN res /\ res.status = 200
  /\ res.book.data = [book_name |-> "n2"] /\ res.book.status = "ISSUED"
  /\ book["b1"] = "ISSUED"
  /\ \E i \in bookIssue : i.book_id = "b1" /\ i.returned_date = NULL

(***************************************************************************)
(* The reads of a user's print jobs: GET /print-history of routes/users.ts *)
(* and POST /preview, POST /confirm, GET /history of routes/print.ts.      *)
(* Each is requireAuth, one store read and the response.                   *)
(***************************************************************************)
\* ---------------------------------------------------------------- records
\* The columns of a PrintJob that a listing and a preview show.
JobView(j) ==
  [print_id |-> j.print_id, total_pages |-> j.total_pages,
   cost_per_page |-> j.cost_per_page, total_cost |-> j.total_cost,
   payment_status |-> j.payment_status]

\* The columns of a Payment that GET /print-history shows.
PaymentView(r) ==
  [payment_id |-> r.payment_id, payment_method |-> r.payment_method,
   transaction_id |-> r.transaction_id, payment_status |-> r.payment_status,
   paid_at |-> r.paid_at]

ReplyHistory(code, s) == [status |-> code, items |-> s]
ReplyConfirm(code, print_id) == [status |-> code, ok |-> TRUE, print_id |-> print_id]

\* previewSchema, confirmSchema: print_id is a non-empty string.
previewSchema(print_id) == print_id # ""

\* ------------------------------------------------------------ store reads
JobsOf_Everyone(uid) == printJob

\* where: { user_id: req.auth.userId } of prisma.printJob.findMany.
JobsOf(uid) == {j \in printJob : j.user_id = uid}

\* include: { payments }: the Payments of one PrintJob.
PaymentsOf(print_id) == {r \in payment : r.print_id = print_id}

\* The place of a print job in the order of creation.
Rank(print_id) == CHOOSE k \in 1..Len(PrintIdSeq) : PrintIdSeq[k] = print_id

\* orderBy: { created_at: 'desc' } on PrintJob rows: created_at follows the
\* order of creation, so the row created last comes first.
JobsDesc(rows) ==
  CHOOSE s \in [1..Cardinality(rows) -> rows] :
    /\ {s[k] : k \in 1..Cardinality(rows)} = rows
    /\ \A k \in 1..(Cardinality(rows) - 1) : Rank(s[k].print_id) > Rank(s[k + 1].print_id)

\* orderBy: { created_at: 'desc' } on Payment rows.
PaymentsDesc(rows) ==
  CHOOSE s \in [1..Cardinality(rows) -> rows] :
    /\ {s[k] : k \in 1..Cardinality(rows)} = rows
    /\ \A k \in 1..(Cardinality(rows) - 1) : s[k].payment_id > s[k + 1].payment_id

\* items of GET /history: the view of each row, in the order of the rows.
HistoryItems(uid) ==
  LET s == JobsDesc(JobsOf(uid)) IN [k \in 1..Len(s) |-> JobView(s[k])]

\* items of GET /print-history: each view carries the job's payments.
PrintHistoryItems(uid) ==
  LET s == JobsDesc(JobsOf(uid)) IN
    [k \in 1..Len(s) |->
       [job |-> JobView(s[k]),
        payments |-> LET t == PaymentsDesc(PaymentsOf(s[k].print_id)) IN
                       [n \in 1..Len(t) |-> PaymentView(t[n])]]]

\* The checks of POST /preview and POST /confirm on the job they read: 0 when
\* all pass.
PreviewCheck(uid, print_id) ==
  IF FindJob(print_id) = {} THEN 404
  ELSE LET job == CHOOSE j \in FindJob(print_id) : TRUE IN
       IF job.user_id # uid THEN 403 ELSE 0

\* The request record of a read of print jobs.
ReadReq(op, cred, uid, print_id) ==
  [op |-> op, cred |-> cred, user_id |-> uid, print_id |-> print_id,
   payment_method |-> "", payment_id |-> 0, transaction_id |-> "",
   payment_status |-> ""]

\* ------------------------------------------------------ GET /print-history
PrintHistoryRequest(p, cred, uid) ==
  /\ Accept(p, ReadReq("print-history", cred, uid, ""))
  /\ IF ~requireAuth(cred) THEN PayDone(p, PayReply(401))
     ELSE PayDone(p, ReplyHistory(200, PrintHistoryItems(uid)))
  /\ UNCHANGED <<store, issueSeq, now, issue, tx, chain, verifyLog>>

\* ------------------------------------------------------------ GET /history
HistoryRequest(p, cred, uid) ==
  /\ Accept(p, ReadReq("history", cred, uid, ""))
  /\ IF ~requireAuth(cred) THEN PayDone(p, PayReply(401))
     ELSE PayDone(p, ReplyHistory(200, HistoryItems(uid)))
  /\ UNCHANGED <<store, issueSeq, now, issue, tx, chain, verifyLog>>

\* ----------------------------------------------------------- POST /preview
PreviewRequest(p, cred, uid, print_id) ==
  /\ Accept(p, ReadReq("preview", cred, uid, print_id))
  /\ IF ~requireAuth(cred) THEN PayDone(p, PayReply(401))
     ELSE IF ~previewSchema(print_id) THEN PayDone(p, PayReply(400))
     ELSE IF PreviewCheck(uid, print_id) # 0
     THEN PayDone(p, PayReply(PreviewCheck(uid, print_id)))
     ELSE LET job == CHOOSE j \in FindJob(print_id) : TRUE IN
            PayDone(p, ReplyJob(200, JobView(job)))
  /\ UNCHANGED <<store, issueSeq, now, issue, tx, chain, verifyLog>>

\* ----------------------------------------------------------- POST /confirm
ConfirmRequest(p, cred, uid, print_id) ==
  /\ Accept(p, ReadReq("confirm", cred, uid, print_id))
  /\ IF ~requireAuth(cred) THEN PayDone(p, PayReply(401))
     ELSE IF ~previewSchema(print_id) THEN PayDone(p, PayReply(400))
     ELSE IF PreviewCheck(uid, print_id) # 0
     THEN PayDone(p, PayReply(PreviewCheck(uid, print_id)))
     ELSE LET job == CHOOSE j \in FindJob(print_id) : TRUE IN
            PayDone(p, ReplyConfirm(200, job.print_id))
  /\ UNCHANGED <<store, issueSeq, now, issue, tx, chain, verifyLog>>

\* ------------------------------------------------------------------- Next
ReadCreds == {"USER", "LIBRARY_ADMIN", NoCred}
ReadPrintIds == {"p1", "p2", MissingPrint, ""}

NextUser ==
  \/ \E p \in Procs, uid \in PayUsers : UploadRequest(p, "USER", uid, 10, NoCost, TRUE)
  \/ \E p \in Procs : InitiateRequest(p, "USER", "u1", "p1", "UPI")
  \/ \E p \in Procs : InitiateCreate(p)
  \/ \E p \in Procs, o \in PAYMENT_OUTCOMES : VerifyRequest(p, "USER", "u1", 1, "t1", o)
  \/ \E p \in Procs : VerifyUpdatePayment(p)
  \/ \E p \in Procs : VerifyUpdateJob(p)
  \/ \E p \in Procs : VerifyTxFail(p)
  \/ \E p \in Procs, cred \in ReadCreds, uid \in PayUsers : PrintHistoryRequest(p, cred, uid)
  \/ \E p \in Procs, cred \in ReadCreds, uid \in PayUsers : HistoryRequest(p, cred, uid)
  \/ \E p \in Procs, cred \in ReadCreds, uid \in PayUsers, id \in ReadPrintIds :
       PreviewRequest(p, cred, uid, id)
  \/ \E p \in Procs, cred \in ReadCreds, uid \in PayUsers, id \in ReadPrintIds :
       ConfirmRequest(p, cred, uid, id)
  \/ Tick

SpecUser == InitPay /\ [][NextUser]_vars

\* ---------------------------------------------------------------------- C32
\* The PrintJobs of the requester of the request accepted in this step.
OwnJobs == {j \in printJob : j.user_id = req'.user_id}

\* C32: GET /history and GET /print-history of an authenticated requester
\* answer 200 with one item for each PrintJob whose user_id is the
\* requester's and no other item, each item showing the job as it is stored
\* (and, in /print-history, that job's Payments and no other); POST /preview
\* and POST /confirm naming a job of another user answer 403, whatever the
\* requester's role, and answer 200 for the requester's own job; none of the
\* four changes a PrintJob or a Payment.
C32_PrintJobReadsOwnerScoped ==
  [][ /\ (Accepts /\ req'.op = "history" /\ req'.cred # NoCred)
          => /\ res'.status = 200
             /\ Len(res'.items) = Cardinality(OwnJobs)
             /\ {res'.items[k] : k \in 1..Len(res'.items)} = {JobView(j) : j \in OwnJobs}
      /\ (Accepts /\ req'.op = "print-history" /\ req'.cred # NoCred)
          => /\ res'.status = 200
             /\ Len(res'.items) = Cardinality(OwnJobs)
             /\ {res'.items[k].job : k \in 1..Len(res'.items)} = {JobView(j) : j \in OwnJobs}
             /\ \A k \in 1..Len(res'.items) :
                  LET shown == res'.items[k].payments IN
                    /\ {shown[n] : n \in 1..Len(shown)}
                         = {PaymentView(r) : r \in {q \in payment :
                                                      q.print_id = res'.items[k].job.print_id}}
                    /\ \A r \in payment :
                         (\E n \in 1..Len(shown) : shown[n].payment_id = r.payment_id)
                           => r.user_id = req'.user_id
      /\ (Accepts /\ req'.op \in {"preview", "confirm"} /\ req'.cred # NoCred)
          => \A j \in printJob : j.print_id = req'.print_id
               => IF j.user_id = req'.user_id THEN res'.status = 200
                  ELSE res'.status = 403
      /\ (Accepts /\ req'.op \in {"history", "print-history", "preview", "confirm"})
          => UNCHANGED <<printJob, payment>> ]_vars

\* u1 has read the print history while u2 has a job of its own: the answer
\* lists u1's second job p3 and then p1 with its paid Payment, and nothing of
\* u2.
C32_Witness ==
  /\ AllIdle
  /\ req.op = "print-history" /\ req.user_id = "u1" /\ req.cred = "USER"
  /\ "items" \in DOMAIN res /\ res.status = 200
  /\ Len(res.items) = 2
  /\ res.items[1].job.print_id = "p3" /\ res.items[2].job.print_id = "p1"
  /\ Len(res.items[2].payments) = 1
  /\ res.items[2].payments[1].payment_status = "SUCCESS"
  /\ \E j \in printJob : j.user_id = "u2"

====
